---- MODULE Spec2Model ----
(***************************************************************************)
(* Model of the per-transaction fraud analysis pipeline of                 *)
(* banking-fraud-detection: FraudDetectionService.processTransaction with  *)
(* the cache (CacheService), the blocklist lookup of RecipientAnalyzer,    *)
(* the rule-based ML scorer, the persisted analyses and EventPublisher.    *)
(*                                                                         *)
(* Numbers: a raw score and a weight are in hundredths (0.45 is 45), a     *)
(* contributedScore and a final score are in ten-thousandths (1.0 is       *)
(* 10000), the clock is in seconds and durations are in milliseconds.     *)
(***************************************************************************)
EXTENDS Integers, Sequences, FiniteSets, TLC

VARIABLES
    now,            \* wall clock, seconds
    thresholds,     \* config.thresholds: suspiciousMin and rejectMin
    isLoaded,       \* MLModelService.isLoaded
    analysisCache,  \* cache keys fraud:analysis:<transactionId> (idempotency markers)
    blocklistCache, \* cache keys fraud:blocklist:<type>:<hash16>
    fraud_blocklist,\* table fraud_blocklist
    fraud_analyses, \* table fraud_analyses
    outbox,         \* per message the broker accepted, how many times
    pc,             \* position of processTransaction
    cur,            \* transactionId of the event being processed
    startTime,      \* startTime of the running call (clock reading)
    idemReadOk,     \* the cache answered the idempotency read of the running call
    cachedResult,   \* what the idempotency check of the running call read
    riskFactors,    \* riskFactors of the running call
    failedAnalyzers,\* methods whose analyzer call rejected in the running call
    analysisElapsed,\* ms the scoring of the running call has taken
    finalResult,    \* finalResult of the running call
    inserted,       \* the running call inserted a fraud_analyses row
    saveFailed,     \* FraudAnalysis.create rejected in the running call
    attempts,       \* EventPublisher.publish calls of the running call
    markerWritten,  \* cacheAnalysis of the running call stored the marker
    deliveries,     \* number of deliveries so far
    faults,         \* number of failures injected so far
    lastCompleted,  \* per transactionId: clock when its last full run returned, or -1
    undelivered,    \* per transactionId: its last full run left a message unsent
    message,        \* EventConsumer: the Kafka message last handed to handleMessage
    handlerInvoked, \* EventConsumer: handleMessage called the transaction handler
    handleOutcome,  \* EventConsumer: how handleMessage ended
    consumed,       \* EventConsumer: number of messages consumed
    velocity,       \* cache: per user and window, the velocity keys (or NULL)
    processed,      \* the events processTransaction was called with, in order
    ticks,          \* number of clock steps taken
    checks,         \* per worker: where its checkBlocklist call stands, and
                    \* the FraudBlocklist instance findOne gave it
    matched,        \* number of checkBlocklist calls that reported a match
    started,        \* number of checkBlocklist calls started
    par,            \* per analyzer of one Promise.allSettled: where its call
                    \* stands, what it holds locally, the factor it returned
    fingerprint,    \* device fingerprint of the event analysed in parallel
    ruleInput,      \* what the rules of the analyzers add up to for it
    reference,      \* the analysis each analyzer alone makes of the start state
    deviceCache,    \* cache: the device info entries, by key
    server,         \* startServer: the last step it has finished, or "exited"
    mlModel,        \* MLModelService.model
    modelVersion,   \* MLModelService.modelVersion
    modelFiles,     \* the model files on disk and the ml configuration
    mlFeatures,     \* MLFeatures handed to MLModelService.predict
    prediction,     \* what that call returned, or NULL before it
    redis,          \* Redis: the velocity keys of one user and window, each
                    \* NULL or its value and TTL
    cacheCalls,     \* per cache client: the CacheService call it is in, the
                    \* next command of its pipeline and the replies so far
    observations,   \* what the getVelocity calls have returned
    incremented,    \* number of incrementVelocity calls that have returned
    callsMade,      \* number of CacheService calls started
    amountArgs,     \* amount and userHistory handed to AmountAnalyzer.analyze
    amountFactor,   \* the RiskFactor it returned, or NULL before the call
    geoArgs,        \* currentLocation, userHistory and knownCountries handed
                    \* to GeographicAnalyzer.analyze
    geoFactor,      \* the RiskFactor it returned, or NULL before the call
    userHistories,  \* what getUserHistory returns for each user
    recipientInfoCache, \* the cache keys "recipient:<recipientId>"
    recipientRuns,  \* the calls of RecipientAnalyzer.analyze made so far
    consumer,       \* EventConsumer.consumer: 0 for null, else the instance
    isConnected,    \* EventConsumer.isConnected
    isRunning,      \* EventConsumer.isRunning
    messageHandler, \* EventConsumer.messageHandler is set
    connected,      \* the consumer instances connected to the broker
    subscribed,     \* the consumer instances subscribed and running
    startResult     \* how the last call of start() ended

\* The variables of the analysis pipeline.
pipelineVars ==
        << now, thresholds, isLoaded, analysisCache, blocklistCache,
           fraud_blocklist, fraud_analyses, outbox, pc, cur, startTime,
           idemReadOk, cachedResult, riskFactors, failedAnalyzers,
           analysisElapsed, finalResult, inserted, saveFailed, attempts,
           markerWritten, deliveries, faults, lastCompleted, undelivered >>

\* The variables of the components around the pipeline.
consumerVars == << message, handlerInvoked, handleOutcome, consumed >>

\* The velocity counters and the history of calls they are judged against.
velocityVars == << velocity, processed, ticks >>

\* Concurrent blocklist checks.
checkVars == << checks, matched, started >>

\* The six analyzers of one analysis, interleaved.
parallelVars == << par, fingerprint, ruleInput, reference, deviceCache >>

\* The start of the service.
startupVars == << server, mlModel, modelVersion, modelFiles >>

\* One call of the ML scorer.
scoringVars == << mlFeatures, prediction >>

\* The variables of the functions and components exercised on their own.
\* The commands of concurrent cache clients on the velocity keys.
clientVars == << redis, cacheCalls, observations, incremented, callsMade >>

\* One call of AmountAnalyzer.analyze.
amountVars == << amountArgs, amountFactor >>

\* One call of GeographicAnalyzer.analyze.
geoVars == << geoArgs, geoFactor >>

\* RecipientAnalyzer.analyze over the shared recipient info cache.
recipientVars == << userHistories, recipientInfoCache, recipientRuns >>

\* The EventConsumer object and the consumer instances it created.
lifecycleVars ==
    << consumer, isConnected, isRunning, messageHandler, connected, subscribed,
       startResult >>

standaloneVars ==
    << scoringVars, clientVars, amountVars, geoVars, recipientVars,
       lifecycleVars >>

otherVars ==
    << consumerVars, velocityVars, checkVars, parallelVars, startupVars,
       standaloneVars >>

vars == << pipelineVars, otherVars >>

----------------------------------------------------------------------------
(* Bounds of the model *)

MaxDeliveries == 2
MaxFaults == 1
MaxWaits == 2
SlowAnalysisMs == 6000
MaxMessages == 2
MaxEvents == 3
MaxTicks == 2
MaxChecks == 3
MaxFraudFlags == 4
MaxCalls == 3
MaxHistory == 10
MaxAnalyses == 2
MaxConsumers == 3

(* Program constants *)

processingTimeoutMs == 5000
inferenceTimeoutMs == 5000
analysisResultTTL == 300
suspiciousMinDefault == 5000
rejectMinDefault == 8000
amountWeight == 25
geographicWeight == 35
recipientWeight == 30
timeWeight == 10
deviceWeight == 20
velocityFactorWeight == 100
mlWeight == 30
amountCap == 40
velocityCap == 45
geographicCap == 50
recipientCap == 45
timeCap == 25
deviceCap == 40
maxTransfersPerFiveMin == 3
maxTransfersPerHour == 10
maxTransfersPerDay == 50
velocityWeightFiveMinute == 15
velocityWeightOneHour == 10
velocityWeightTwentyFourHours == 8
blocklistScore == 100
blocklistContributed == 10000
scoreCap == 10000
mlNeutralScore == 50
mlNeutralConfidence == 10
unusualMultiplier == 5
largeTransferMin == 10000
impossibleTravelHours == 2
newRecipientDays == 30
trustedRecipientMinTransfers == 5
mlScoreCap == 95
ttlFiveMinutes == 300
ttlOneHour == 3600
ttlTwentyFourHours == 86400

Min(a, b) == IF a < b THEN a ELSE b

NULL == [null |-> TRUE]

NoTx == "none"

TxIds == {"t1", "t2"}

\* The event delivered under each transactionId (TransactionCreatedEvent.payload).
\* The timestamp is the field of the payload processTransaction reads (the
\* declared type leaves it out), in seconds from the start of a week
\* (Sunday 00:00).
EventOf(tx) ==
    IF tx = "t1"
    THEN [transactionId |-> "t1", userId |-> "u1", recipientId |-> "r1",
          destinationAccountId |-> "a1", amount |-> 110,
          timestamp |-> 2 * 86400 + 14 * 3600]
    ELSE [transactionId |-> "t2", userId |-> "u2", recipientId |-> "r2",
          destinationAccountId |-> "a2", amount |-> 9500,
          timestamp |-> 6 * 86400 + 3 * 3600 + 1200]

Methods == {"AMOUNT", "VELOCITY", "DEVICE", "GEOGRAPHIC", "RECIPIENT", "TIME"}

----------------------------------------------------------------------------
(* Hashing *)

\* RecipientAnalyzer.hashValue: the SHA-256 hex digest of the value.
hashValue(value) == "sha256:" \o value

\* CacheService.hashValue: the SHA-256 hex digest cut to 16 characters.
cacheHashValue(value) == "sha256/16:" \o value

\* A faulty variant: one key for every type of entry.
blocklistKey_untyped(type, value) == << "blocklist", cacheHashValue(value) >>

\* A faulty variant: the key is built from the value itself.
blocklistKey_raw(type, value) == << "blocklist", type, value >>

\* Cache key of a blocklist entry.
blocklistKey(type, value) == << "blocklist", type, cacheHashValue(value) >>

----------------------------------------------------------------------------
(* Risk factors *)

RECURSIVE SumContributed(_)
\* The forEach of calculateFinalDecision: the sum of the contributedScore fields.
SumContributed(factors) ==
    IF factors = << >> THEN 0
    ELSE Head(factors).contributedScore + SumContributed(Tail(factors))

\* Details without any of the fields constructMLFeatures reads: each of them
\* is undefined in the code and falls to the default of its "||".
NoDetails ==
    [transactionsFiveMin |-> 0, transactionsOneHour |-> 0,
     transactionsTwentyFourHours |-> 0, amountFiveMin |-> 0,
     amountOneHour |-> 0, amountTwentyFourHours |-> 0]

\* The value of a rejected analyzer promise.
Rejected == [rejected |-> TRUE]

\* The shape every rule analyzer's analyze() has: the rules run inside one
\* try block and add up to a raw score that is capped; the catch block
\* returns the zero-score factor. ruleScore is what the rules add up to,
\* mode says whether the body ran through ("none"), raised inside the try
\* ("caught") or the call rejected ("thrown").
AnalyzerFactor(method, weight, cap, ruleScore, mode) ==
    CASE mode = "thrown" -> Rejected
      [] mode = "caught" ->
            [method |-> method, score |-> 0, weight |-> weight,
             contributedScore |-> 0, reason |-> "unavailable",
             details |-> NoDetails]
      [] OTHER ->
            [method |-> method, score |-> Min(ruleScore, cap), weight |-> weight,
             contributedScore |-> Min(ruleScore, cap) * weight,
             reason |-> "rules", details |-> NoDetails]

\* VelocityAnalyzer.checkAmountSpike (0.12 when the 5-minute total with the
\* current amount is above ten times the 24-hour average).
checkAmountSpike(velocityData, currentAmount) ==
    IF /\ velocityData.transactionsTwentyFourHours > 0
       /\ (velocityData.amountFiveMin + currentAmount)
              * velocityData.transactionsTwentyFourHours
            > velocityData.amountTwentyFourHours * 10
    THEN 12 ELSE 0

\* One window of VelocityAnalyzer.analyze: weight * min(count / max, 2.0)
\* when the count read has reached the maximum. The quotient is taken in
\* whole hundredths; the counts used here divide evenly.
VelocityWindow(count, max, weight) ==
    IF count >= max THEN Min((weight * count) \div max, 2 * weight) ELSE 0

\* VelocityAnalyzer.analyze on the counters read from the cache.
\* checkRapidDiverseTransfers never detects anything (its uniqueRecipients
\* stays 0), so it adds nothing.
VelocityAnalyzer_analyze(velocityData, amount, mode) ==
    LET total == VelocityWindow(velocityData.transactionsFiveMin,
                                maxTransfersPerFiveMin, velocityWeightFiveMinute)
               + VelocityWindow(velocityData.transactionsOneHour,
                                maxTransfersPerHour, velocityWeightOneHour)
               + VelocityWindow(velocityData.transactionsTwentyFourHours,
                                maxTransfersPerDay, velocityWeightTwentyFourHours)
               + checkAmountSpike(velocityData, amount)
        f == AnalyzerFactor("VELOCITY", velocityFactorWeight, velocityCap, total, mode)
    IN IF mode = "none"
       THEN [f EXCEPT !.details =
                [transactionsFiveMin |-> velocityData.transactionsFiveMin + 1,
                 transactionsOneHour |-> velocityData.transactionsOneHour + 1,
                 transactionsTwentyFourHours |->
                     velocityData.transactionsTwentyFourHours + 1,
                 amountFiveMin |-> velocityData.amountFiveMin + amount,
                 amountOneHour |-> velocityData.amountOneHour + amount,
                 amountTwentyFourHours |->
                     velocityData.amountTwentyFourHours + amount]]
       ELSE f

\* FraudDetectionService.safeAnalyze: a rejected analyzer call becomes null.
safeAnalyze(outcome) == IF outcome = Rejected THEN NULL ELSE outcome

\* The forEach over the settled results: null values are not collected.
CollectFactors(results) == SelectSeq(results, LAMBDA r : r # NULL)

----------------------------------------------------------------------------
(* ML scorer *)

\* new Date(timestamp).getHours() and .getDay().
getHours(timestamp) == (timestamp \div 3600) % 24
getDay(timestamp) == (timestamp \div 86400) % 7

\* The "||" of JavaScript on numbers: the default replaces 0 and undefined.
OrElse(x, default) == IF x = 0 THEN default ELSE x

\* FraudDetectionService.constructMLFeatures with userHistory = null.
constructMLFeatures(transaction, factors) ==
    LET v == SelectSeq(factors, LAMBDA r : r.method = "VELOCITY")
        d == IF v = << >> THEN NoDetails ELSE Head(v).details
    IN [txCountFiveMin |-> d.transactionsFiveMin,
        txCountOneHour |-> d.transactionsOneHour,
        txCountTwentyFourHours |-> d.transactionsTwentyFourHours,
        amount |-> transaction.amount,
        amountFiveMin |-> OrElse(d.amountFiveMin, transaction.amount),
        amountOneHour |-> OrElse(d.amountOneHour, transaction.amount),
        amountTwentyFourHours |->
            OrElse(d.amountTwentyFourHours, transaction.amount),
        amountRatioToAvg |-> 1, amountRatioToMax |-> 1, amountZScore |-> 0,
        isNewCountry |-> 0, distanceFromLastTx |-> 0, impossibleTravel |-> 0,
        hourOfDay |-> getHours(transaction.timestamp),
        dayOfWeek |-> getDay(transaction.timestamp),
        isUnusualHour |-> 0, timeSinceLastTx |-> 0, isNewRecipient |-> 0,
        recipientRiskScore |-> 0, recipientTxCount |-> 0, isNewDevice |-> 0,
        deviceTrustScore |-> 1, accountAge |-> 365, totalTxCount |-> 0,
        avgTxAmount |-> 0, previousFraudFlags |-> 0]

\* MLModelService.featuresToArray: the 26 features in their fixed order
\* (index i of the code is index i + 1 here).
featuresToArray(f) ==
    << f.txCountFiveMin, f.txCountOneHour, f.txCountTwentyFourHours,
       f.amountFiveMin, f.amountOneHour, f.amountTwentyFourHours, f.amount,
       f.amountRatioToAvg, f.amountRatioToMax, f.amountZScore,
       f.isNewCountry, f.distanceFromLastTx, f.impossibleTravel,
       f.hourOfDay, f.dayOfWeek, f.isUnusualHour, f.timeSinceLastTx,
       f.isNewRecipient, f.recipientRiskScore, f.recipientTxCount,
       f.isNewDevice, f.deviceTrustScore, f.accountAge, f.totalTxCount,
       f.avgTxAmount, f.previousFraudFlags >>

\* RuleBasedModel.predict, reading the array at the indices the code reads.
RuleBasedModel_predict(features) ==
    LET velocity5m == features[1]
        velocity1h == features[2]
        amountRatio == features[8]
        impossibleTravel == features[13]
        isNewRecipient == features[16]
        isNewDevice == features[19]
        prevFraudFlags == features[24]
        score == (IF velocity5m > 3 THEN 15 ELSE 0)
               + (IF velocity1h > 10 THEN 10 ELSE 0)
               + (IF amountRatio > 5 THEN 20 ELSE 0)
               + (IF impossibleTravel > 0 THEN 30 ELSE 0)
               + (IF isNewRecipient > 0 THEN 10 ELSE 0)
               + (IF isNewDevice > 0 THEN 10 ELSE 0)
               + (IF prevFraudFlags > 0 THEN 15 * Min(prevFraudFlags, 3) ELSE 0)
    IN [score |-> Min(score, mlScoreCap), confidence |-> 70]

\* version of RuleBasedModel.
ruleBasedVersion == "rule-based-v1"

\* config.ml.modelVersion.
configuredVersion == "v2.5"

\* What loadModel finds: whether the primary and the fallback model file
\* exist, the SHA-256 of the primary file, and config.ml (an unset
\* expectedModelHash is the empty string here).
ModelFiles ==
    [present : BOOLEAN, hash : {"h1", "h2"}, fallbackPresent : BOOLEAN,
     modelHashValidation : BOOLEAN, expectedModelHash : {"", "h1"}]

\* MLModelService.validateModelHash; a file that cannot be read is invalid.
validateModelHash(files, readOk) ==
    readOk /\ files.hash = files.expectedModelHash

\* MLModelService.loadModel: the fields it leaves and whether it throws.
\* Without the primary file the rule-based model is used; a failed hash
\* validation throws ModelLoadError inside the try block, and the catch
\* block answers it with the fallback model.
loadModel(files, readOk) ==
    IF ~files.present
    THEN [model |-> "rule-based", modelVersion |-> ruleBasedVersion,
          isLoaded |-> TRUE, thrown |-> FALSE]
    ELSE IF /\ files.modelHashValidation
            /\ files.expectedModelHash # ""
            /\ ~validateModelHash(files, readOk)
    THEN [model |-> "rule-based",
          modelVersion |-> IF files.fallbackPresent
                           THEN "fallback-" \o ruleBasedVersion
                           ELSE ruleBasedVersion,
          isLoaded |-> TRUE, thrown |-> FALSE]
    ELSE [model |-> "rule-based", modelVersion |-> configuredVersion,
          isLoaded |-> TRUE, thrown |-> FALSE]

\* MLModelService.predict for the service as the pipeline loads it (no
\* model file, every read succeeding): the prediction under the loaded
\* version, or the neutral result under that version with "-error" added
\* when the inference timed out or threw.
predict(features, inference) ==
    LET version == loadModel(modelFiles, TRUE).modelVersion
    IN IF inference = "ok"
       THEN LET p == RuleBasedModel_predict(featuresToArray(features))
            IN [score |-> p.score, confidence |-> p.confidence,
                modelVersion |-> version, error |-> FALSE]
       ELSE [score |-> mlNeutralScore, confidence |-> mlNeutralConfidence,
             modelVersion |-> version \o "-error", error |-> TRUE]

\* A faulty variant: the score is contributed without its weight.
MLFactor_unweighted(mlResult) ==
    [method |-> "ML_MODEL", score |-> mlResult.score, weight |-> mlWeight,
     contributedScore |-> mlResult.score * 100,
     reason |-> "ml",
     details |-> [confidence |-> mlResult.confidence,
                  modelVersion |-> mlResult.modelVersion]]

\* The ML_MODEL factor processTransaction pushes.
MLFactor(mlResult) ==
    [method |-> "ML_MODEL", score |-> mlResult.score, weight |-> mlWeight,
     contributedScore |-> mlResult.score * mlWeight,
     reason |-> "ml",
     details |-> [confidence |-> mlResult.confidence,
                  modelVersion |-> mlResult.modelVersion]]

----------------------------------------------------------------------------
(* Aggregation and decision *)

\* A faulty variant: the sum is not capped at 1.0.
calculateFinalDecision_uncapped(transactionId, factors, th) ==
    LET finalScore == SumContributed(factors)
        requiresManualReview == finalScore >= th.suspiciousMin
        decision == IF finalScore >= th.rejectMin THEN "REJECT"
                    ELSE IF requiresManualReview THEN "SUSPICIOUS"
                    ELSE "APPROVE"
    IN [transactionId |-> transactionId, score |-> finalScore,
        decision |-> decision, confidence |-> "HIGH", status |-> "COMPLETED",
        requiresManualReview |-> requiresManualReview]

\* A faulty variant: the review flag is compared with rejectMin, so the
\* SUSPICIOUS band is never entered.
calculateFinalDecision_noBand(transactionId, factors, th) ==
    LET finalScore == Min(SumContributed(factors), scoreCap)
        requiresManualReview == finalScore >= th.rejectMin
        decision == IF finalScore >= th.rejectMin THEN "REJECT"
                    ELSE IF requiresManualReview THEN "SUSPICIOUS"
                    ELSE "APPROVE"
    IN [transactionId |-> transactionId, score |-> finalScore,
        decision |-> decision, confidence |-> "HIGH", status |-> "COMPLETED",
        requiresManualReview |-> requiresManualReview]

\* FraudDetectionService.calculateFinalDecision. The riskFactors field of the
\* result is the array passed in, which the model keeps in riskFactors.
calculateFinalDecision(transactionId, factors, th) ==
    LET totalScore == SumContributed(factors)
        finalScore == Min(totalScore, scoreCap)
        requiresManualReview == finalScore >= th.suspiciousMin
        decision == IF finalScore >= th.rejectMin THEN "REJECT"
                    ELSE IF requiresManualReview THEN "SUSPICIOUS"
                    ELSE "APPROVE"
    IN [transactionId |-> transactionId, score |-> finalScore,
        decision |-> decision, confidence |-> "HIGH", status |-> "COMPLETED",
        requiresManualReview |-> requiresManualReview]

----------------------------------------------------------------------------
(* CacheService *)

\* A faulty variant: the lookup never finds the marker.
getCachedAnalysis_alwaysMiss(transactionId, ok) == NULL

\* CacheService.getCachedAnalysis: null when the cache is unreachable or the
\* read fails (ok = FALSE), when the key is absent or when it has expired.
getCachedAnalysis(transactionId, ok) ==
    LET e == analysisCache[transactionId]
    IN IF ok /\ e # NULL /\ now < e.expiresAt THEN e.value ELSE NULL

\* CacheService.cacheAnalysis: SET key value EX analysisResultTTL; nothing
\* is stored when the cache is unreachable or the write fails.
cacheAnalysis(transactionId, result, ok) ==
    IF ok
    THEN [analysisCache EXCEPT ![transactionId] =
             [value |-> result, expiresAt |-> now + analysisResultTTL]]
    ELSE analysisCache

\* CacheService.isInBlocklist.
isInBlocklist(type, value, ok) ==
    LET hits == {c \in blocklistCache : c.key = blocklistKey(type, value)}
    IN IF ok /\ hits # {} THEN (CHOOSE c \in hits : TRUE).entry ELSE NULL

\* CacheService.addToBlocklistCache.
addToBlocklistCache(entry, ok) ==
    IF ok
    THEN {c \in blocklistCache : c.key # blocklistKey(entry.type, entry.value)}
         \cup {[key |-> blocklistKey(entry.type, entry.value), entry |-> entry]}
    ELSE blocklistCache

----------------------------------------------------------------------------
(* RecipientAnalyzer *)

\* The rows FraudBlocklist.findOne of checkBlocklist can return.
BlocklistMatches(recipientId, recipientAccountId) ==
    {e \in fraud_blocklist :
        /\ e.valueHash \in {hashValue(recipientId), hashValue(recipientAccountId)}
        /\ e.isActive}

\* Model.save on a FraudBlocklist instance: the row of the instance's
\* identity takes the instance's values.
save(instance) ==
    {e \in fraud_blocklist :
        ~(e.type = instance.type /\ e.value = instance.value)}
      \cup {instance}

\* FraudBlocklist.recordMatch on the instance findOne returned:
\* this.matchCount += 1, then save().
recordMatch(row) == save([row EXCEPT !.matchCount = @ + 1])

\* RecipientAnalyzer.checkBlocklist. cacheOk: the cache answers; dbOk: findOne
\* resolves; saveOk: the save of recordMatch resolves; row: the row findOne
\* returns (NULL for none). Any rejection lands in the catch block, which
\* reports no match.
checkBlocklist(recipientId, recipientAccountId, cacheOk, dbOk, saveOk, row) ==
    LET cachedBlock == isInBlocklist("RECIPIENT", recipientId, cacheOk)
        cachedAccountBlock == isInBlocklist("ACCOUNT", recipientAccountId, cacheOk)
        same == [detected |-> FALSE, cache |-> blocklistCache,
                 table |-> fraud_blocklist]
    IN IF cachedBlock # NULL /\ cachedBlock.isActive
       THEN [same EXCEPT !.detected = TRUE]
       ELSE IF cachedAccountBlock # NULL /\ cachedAccountBlock.isActive
       THEN [same EXCEPT !.detected = TRUE]
       ELSE IF ~dbOk \/ row = NULL
       THEN same
       ELSE LET cached == addToBlocklistCache(
                              [type |-> row.type, value |-> row.value,
                               isActive |-> row.isActive], cacheOk)
            IN IF saveOk
               THEN [detected |-> TRUE, cache |-> cached, table |-> recordMatch(row)]
               ELSE [detected |-> FALSE, cache |-> cached, table |-> fraud_blocklist]

\* The factor RecipientAnalyzer.analyze returns on a blocklist match.
BlocklistFactor ==
    [method |-> "RECIPIENT", score |-> blocklistScore, weight |-> recipientWeight,
     contributedScore |-> blocklistContributed, reason |-> "blocklist",
     details |-> NoDetails]

\* RecipientAnalyzer.analyze: the blocklist check first, then the rules.
RecipientAnalyzer_analyze(transaction, ruleScore, mode, cacheOk, dbOk, saveOk, row) ==
    LET bl == checkBlocklist(transaction.recipientId,
                             transaction.destinationAccountId,
                             cacheOk, dbOk, saveOk, row)
    IN IF mode = "thrown"
       THEN [factor |-> Rejected, cache |-> blocklistCache, table |-> fraud_blocklist]
       ELSE IF bl.detected
       THEN [factor |-> BlocklistFactor, cache |-> bl.cache, table |-> bl.table]
       ELSE [factor |-> AnalyzerFactor("RECIPIENT", recipientWeight, recipientCap,
                                       ruleScore, mode),
             cache |-> bl.cache, table |-> bl.table]

----------------------------------------------------------------------------
(* EventPublisher *)

\* EventPublisher.publish: the message is sent when the producer is connected
\* and send resolves (ok); otherwise the failure is logged and null returned.
publish(topic, eventType, key, payload, ok) ==
    [topic |-> topic, eventType |-> eventType, key |-> key,
     payload |-> payload, sent |-> ok]

ResultPayload(result) == [decision |-> result.decision, score |-> result.score]

publishAnalysisComplete(result, ok) ==
    publish("fraudAnalysis", "FraudAnalysisComplete", result.transactionId,
            ResultPayload(result), ok)

publishFraudSuspected(result, ok) ==
    publish("fraudSuspected", "FraudSuspected", result.transactionId,
            ResultPayload(result), ok)

publishManualReviewRequired(result, ok) ==
    publish("fraudManualReview", "ManualReviewRequired", result.transactionId,
            [decision |-> result.decision, score |-> result.score], ok)

\* A faulty variant: an approved analysis is not announced.
publishResult_silentApprove(result, ok1, ok2) ==
    IF result.decision = "REJECT"
    THEN << publishFraudSuspected(result, ok1) >>
    ELSE IF result.decision = "SUSPICIOUS" \/ result.requiresManualReview
    THEN << publishFraudSuspected(result, ok1),
            publishManualReviewRequired(result, ok2) >>
    ELSE << >>

\* A faulty variant: a rejected analysis also asks for a manual review.
publishResult_rejectWithReview(result, ok1, ok2) ==
    IF result.decision = "REJECT" \/ result.decision = "SUSPICIOUS"
          \/ result.requiresManualReview
    THEN << publishFraudSuspected(result, ok1),
            publishManualReviewRequired(result, ok2) >>
    ELSE << publishAnalysisComplete(result, ok1) >>

\* FraudDetectionService.publishResult: the publish calls it makes, in order.
publishResult(result, ok1, ok2) ==
    IF result.decision = "REJECT"
    THEN << publishFraudSuspected(result, ok1) >>
    ELSE IF result.decision = "SUSPICIOUS" \/ result.requiresManualReview
    THEN << publishFraudSuspected(result, ok1),
            publishManualReviewRequired(result, ok2) >>
    ELSE << publishAnalysisComplete(result, ok1) >>

MessageId(a) == << a.topic, a.eventType, a.key >>

\* The (topic, eventType) pairs the publish methods used here produce.
MessageKinds ==
    { << "fraudAnalysis", "FraudAnalysisComplete" >>,
      << "fraudSuspected", "FraudSuspected" >>,
      << "fraudManualReview", "ManualReviewRequired" >> }
MessageIds == {<< k[1], k[2], t >> : k \in MessageKinds, t \in TxIds}

\* The broker's log after the sent ones of the calls were appended.
Delivered(box, calls) ==
    [m \in MessageIds |->
        box[m] + Cardinality({i \in DOMAIN calls :
                                 calls[i].sent /\ MessageId(calls[i]) = m})]

----------------------------------------------------------------------------
(* Inputs of the model *)

\* What the cache holds for a user's velocity counters when VelocityAnalyzer
\* reads them: nothing, or a burst of recent transfers.
NoVelocity ==
    [transactionsFiveMin |-> 0, transactionsOneHour |-> 0,
     transactionsTwentyFourHours |-> 0, amountFiveMin |-> 0,
     amountOneHour |-> 0, amountTwentyFourHours |-> 0]
BurstVelocity ==
    [transactionsFiveMin |-> 6, transactionsOneHour |-> 20,
     transactionsTwentyFourHours |-> 20, amountFiveMin |-> 600,
     amountOneHour |-> 2000, amountTwentyFourHours |-> 2000]

\* The inputs an analysis runs on, as what the rules of each analyzer add up
\* to and how long the analyzers take: a transfer no rule fires on, analysed
\* at once, and one that trips the rules of the amount and velocity
\* analyzers and whose analysis is slow.
RuleInputs ==
    { [amount |-> 0, velocityData |-> NoVelocity, device |-> 0,
       geographic |-> 0, recipient |-> 0, time |-> 0, elapsedMs |-> 0],
      [amount |-> 55, velocityData |-> BurstVelocity, device |-> 0,
       geographic |-> 0, recipient |-> 0, time |-> 0,
       elapsedMs |-> SlowAnalysisMs] }

FailureModes == {"none", "caught", "thrown"}

\* The analyzers a failure is injected into: one with plain rules, the one
\* whose details feed the ML features, and the one holding the blocklist check.
FaultyMethods == {"AMOUNT", "VELOCITY", "RECIPIENT"}

\* The analyzer calls that fail in one analysis.
Failing(f) == {m \in Methods : f[m] # "none"}

\* Which analyzer calls fail in one analysis, and how, when at most budget
\* of them do.
FailureChoicesUpTo ==
    [budget \in 0..MaxFaults |->
        {f \in [Methods -> FailureModes] :
            /\ Failing(f) \subseteq FaultyMethods
            /\ Cardinality(Failing(f)) <= budget}]
FailureChoices(budget) == FailureChoicesUpTo[budget]

\* A failed operation counts as one fault.
Cost(ok) == IF ok THEN 0 ELSE 1

\* expires_at of a row without expiration (the column is null).
NoExpiry == -1

BlocklistRow(type, value) ==
    [type |-> type, value |-> value, valueHash |-> hashValue(value),
     isActive |-> TRUE, matchCount |-> 0, expiresAt |-> NoExpiry]

\* A temporary block: a row with an expiration.
TemporaryRow(type, value, expiresAt) ==
    [BlocklistRow(type, value) EXCEPT !.expiresAt = expiresAt]

\* The blocklist tables the model starts from: the recipient of t2 is listed,
\* or its destination account is.
BlocklistTables ==
    { {BlocklistRow("RECIPIENT", "r2")}, {BlocklistRow("ACCOUNT", "a2")} }

DefaultThresholds ==
    [suspiciousMin |-> suspiciousMinDefault, rejectMin |-> rejectMinDefault]

HalfTTL == analysisResultTTL \div 2

\* The array Promise.allSettled resolves to in processTransaction: the six
\* safeAnalyze results in the order of the calls. recipient is what
\* RecipientAnalyzer.analyze came to.
SettledResults(transaction, in, fail, recipient) ==
    << safeAnalyze(AnalyzerFactor("AMOUNT", amountWeight, amountCap,
                                  in.amount, fail["AMOUNT"])),
       safeAnalyze(VelocityAnalyzer_analyze(in.velocityData, transaction.amount,
                                            fail["VELOCITY"])),
       safeAnalyze(AnalyzerFactor("DEVICE", deviceWeight, deviceCap,
                                  in.device, fail["DEVICE"])),
       safeAnalyze(AnalyzerFactor("GEOGRAPHIC", geographicWeight, geographicCap,
                                  in.geographic, fail["GEOGRAPHIC"])),
       safeAnalyze(recipient),
       safeAnalyze(AnalyzerFactor("TIME", timeWeight, timeCap,
                                  in.time, fail["TIME"])) >>

----------------------------------------------------------------------------
(* EventConsumer *)

\* JavaScript values as JSON.parse returns them.
Undefined == [type |-> "undefined"]
JsNull == [type |-> "null"]
Str(s) == [type |-> "string", str |-> s]
Num(n) == [type |-> "number", num |-> n]

\* typeof x.
TypeOf(x) == x.type

\* Whether x is truthy (!x is its negation).
Truthy(x) ==
    CASE x.type = "undefined" -> FALSE
      [] x.type = "null" -> FALSE
      [] x.type = "string" -> x.str # ""
      [] x.type = "number" -> x.num # 0
      [] OTHER -> TRUE

\* x[field] for a non-null x: a property of an object, undefined on a
\* string or a number.
Prop(x, field) ==
    IF x.type = "object" /\ field \in DOMAIN x THEN x[field] ELSE Undefined

\* The payloads a message can carry: each required field present and well
\* formed, absent, empty or of the wrong type, and amounts of either sign.
Payloads ==
    [type : {"object"},
     transactionId : {Str("t1"), Undefined, Num(7)},
     userId : {Str("u1"), Undefined, Str("")},
     amount : {Num(110), Num(0), Num(-5), Str("110"), Undefined},
     recipientId : {Str("r1"), Undefined, Num(3)}]

\* The values JSON.parse can return for a message.
ParsedValues ==
    {JsNull, Num(5), Num(0), Str("x"), [type |-> "object"],
     [type |-> "object", payload |-> Str("p")],
     [type |-> "object", payload |-> JsNull]}
    \cup {[type |-> "object", payload |-> p] : p \in Payloads}

NoMessage == [value |-> "none"]

\* KafkaMessage: value is null, or bytes that are not JSON ("" included), or
\* the JSON text of a value.
Messages ==
    {[value |-> "null"], [value |-> "malformed"]}
    \cup {[value |-> "json", parsed |-> v] : v \in ParsedValues}

\* EventConsumer.parseMessage: null for a null value and when JSON.parse
\* throws, else the parsed value.
parseMessage(msg) ==
    IF msg.value = "null" THEN JsNull
    ELSE IF msg.value = "malformed" THEN JsNull
    ELSE msg.parsed

\* A faulty variant: the amount is not looked at.
validateEvent_anyAmount(event) ==
    IF ~Truthy(event) \/ ~Truthy(Prop(event, "payload")) THEN FALSE
    ELSE LET payload == Prop(event, "payload")
         IN /\ Truthy(Prop(payload, "transactionId"))
            /\ TypeOf(Prop(payload, "transactionId")) = "string"
            /\ Truthy(Prop(payload, "userId"))
            /\ TypeOf(Prop(payload, "userId")) = "string"
            /\ Truthy(Prop(payload, "recipientId"))
            /\ TypeOf(Prop(payload, "recipientId")) = "string"

\* EventConsumer.validateEvent.
validateEvent(event) ==
    IF ~Truthy(event) \/ ~Truthy(Prop(event, "payload")) THEN FALSE
    ELSE LET payload == Prop(event, "payload")
         IN IF ~Truthy(Prop(payload, "transactionId"))
                \/ TypeOf(Prop(payload, "transactionId")) # "string"
            THEN FALSE
            ELSE IF ~Truthy(Prop(payload, "userId"))
                    \/ TypeOf(Prop(payload, "userId")) # "string"
            THEN FALSE
            ELSE IF TypeOf(Prop(payload, "amount")) # "number"
                    \/ Prop(payload, "amount").num <= 0
            THEN FALSE
            ELSE IF ~Truthy(Prop(payload, "recipientId"))
                    \/ TypeOf(Prop(payload, "recipientId")) # "string"
            THEN FALSE
            ELSE TRUE

\* EventConsumer.handleMessage on msg; handlerOk says whether the handler,
\* when called, resolves. An unparsable or invalid message is logged and
\* dropped; an error of the handler is logged and thrown again.
handleMessage(msg, handlerOk) ==
    LET event == parseMessage(msg)
    IN IF ~Truthy(event)
       THEN [invoked |-> FALSE, outcome |-> "returned"]
       ELSE IF ~validateEvent(event)
       THEN [invoked |-> FALSE, outcome |-> "returned"]
       ELSE [invoked |-> TRUE,
             outcome |-> IF handlerOk THEN "returned" ELSE "thrown"]

ConsumerInit ==
    /\ message = NoMessage
    /\ handlerInvoked = FALSE
    /\ handleOutcome = "none"
    /\ consumed = 0


----------------------------------------------------------------------------
(* Velocity counters *)

Windows == {"5m", "1h", "24h"}

Users == {EventOf(t).userId : t \in TxIds}

\* const ttl = window === '5m' ? 300 : window === '1h' ? 3600 : 86400
WindowTTL(window) ==
    IF window = "5m" THEN ttlFiveMinutes
    ELSE IF window = "1h" THEN ttlOneHour ELSE ttlTwentyFourHours

\* The count and amount keys of one user and window as Redis answers for them
\* at the current time: an expired key is gone.
VelocityKeys(userId, window) ==
    LET e == velocity[userId][window]
    IN IF e # NULL /\ now < e.expiresAt THEN e ELSE NULL

\* CacheService.getVelocity: the two keys read, zero for an absent key, and
\* { 0, 0 } when the cache is unreachable or the read fails (ok = FALSE).
getVelocity(userId, window, ok) ==
    LET e == VelocityKeys(userId, window)
    IN IF ok /\ e # NULL
       THEN [count |-> e.count, totalAmount |-> e.totalAmount]
       ELSE [count |-> 0, totalAmount |-> 0]

\* A faulty variant: EXPIRE is only issued when the key is created.
incrementVelocity_expireOnce(userId, window, amount, ok) ==
    LET e == VelocityKeys(userId, window)
    IN IF ~ok THEN velocity[userId][window]
       ELSE IF e = NULL
       THEN [count |-> 1, totalAmount |-> amount,
             expiresAt |-> now + WindowTTL(window)]
       ELSE [count |-> e.count + 1, totalAmount |-> e.totalAmount + amount,
             expiresAt |-> e.expiresAt]

\* CacheService.incrementVelocity, as the keys of the window afterwards:
\* INCR and INCRBYFLOAT (from zero when the key is absent), and EXPIRE with
\* the window length on both keys at every call. Nothing is written when the
\* cache is unreachable or the pipeline fails.
incrementVelocity(userId, window, amount, ok) ==
    LET e == VelocityKeys(userId, window)
    IN IF ~ok THEN velocity[userId][window]
       ELSE [count |-> (IF e = NULL THEN 0 ELSE e.count) + 1,
             totalAmount |-> (IF e = NULL THEN 0 ELSE e.totalAmount) + amount,
             expiresAt |-> now + WindowTTL(window)]

\* VelocityAnalyzer.getVelocityData: the three windows read.
getVelocityData(userId, ok) ==
    [transactionsFiveMin |-> getVelocity(userId, "5m", ok).count,
     transactionsOneHour |-> getVelocity(userId, "1h", ok).count,
     transactionsTwentyFourHours |-> getVelocity(userId, "24h", ok).count,
     amountFiveMin |-> getVelocity(userId, "5m", ok).totalAmount,
     amountOneHour |-> getVelocity(userId, "1h", ok).totalAmount,
     amountTwentyFourHours |-> getVelocity(userId, "24h", ok).totalAmount]

\* VelocityAnalyzer.incrementVelocity: the three windows incremented.
VelocityAnalyzer_incrementVelocity(userId, amount, ok) ==
    [velocity EXCEPT ![userId] =
        [w \in Windows |-> incrementVelocity(userId, w, amount, ok)]]

\* The rule inputs of a transfer on which only the velocity rules can fire.
VelocityInputs(velocityData) ==
    [amount |-> 0, velocityData |-> velocityData, device |-> 0,
     geographic |-> 0, recipient |-> 0, time |-> 0, elapsedMs |-> 0]

\* Steps 3 to 5 of processTransaction for such a transfer: the six factors,
\* the ML factor and the final decision.
AnalysisOf(transaction, velocityData) ==
    LET none == [m \in Methods |-> "none"]
        rec == RecipientAnalyzer_analyze(transaction, 0, "none", TRUE, TRUE,
                                         TRUE, NULL)
        rules == CollectFactors(SettledResults(transaction,
                                    VelocityInputs(velocityData), none, rec.factor))
        ml == predict(constructMLFeatures(transaction, rules), "ok")
    IN calculateFinalDecision(transaction.transactionId,
                              Append(rules, MLFactor(ml)), thresholds)

VelocityInit ==
    /\ velocity = [u \in Users |-> [w \in Windows |-> NULL]]
    /\ processed = << >>
    /\ ticks = 0

----------------------------------------------------------------------------
(* Blocklist checks of concurrent analyses *)

\* The analyses running side by side, each inside checkBlocklist.
Workers == {"w1", "w2"}

ChecksInit ==
    /\ checks = [w \in Workers |-> [pc |-> "idle", instance |-> NULL]]
    /\ matched = 0
    /\ started = 0

----------------------------------------------------------------------------
(* DeviceAnalyzer's blocklist check and the analyzers of one analysis *)

\* The rows FraudBlocklist.findOne of DeviceAnalyzer.checkBlocklist can return.
DeviceMatches(deviceFingerprint) ==
    {e \in fraud_blocklist :
        /\ e.type = "DEVICE"
        /\ e.valueHash = hashValue(deviceFingerprint)
        /\ e.isActive}

\* The factor DeviceAnalyzer.analyze returns on a blocklist match.
DeviceBlocklistFactor ==
    [method |-> "DEVICE", score |-> blocklistScore, weight |-> deviceWeight,
     contributedScore |-> blocklistContributed, reason |-> "blocklist",
     details |-> NoDetails]

\* The cache entry both checkBlocklist methods write for a row.
CacheEntry(type, row) ==
    [type |-> type, value |-> row.value, isActive |-> row.isActive]

\* DeviceAnalyzer.analyze run on its own on the present state, every call
\* succeeding: a cached or stored DEVICE entry gives the blocklist factor,
\* otherwise the rules decide.
DeviceAnalyzer_analyze(deviceFingerprint, ruleScore) ==
    LET cached == isInBlocklist("DEVICE", deviceFingerprint, TRUE)
    IN IF (cached # NULL /\ cached.isActive) \/ DeviceMatches(deviceFingerprint) # {}
       THEN DeviceBlocklistFactor
       ELSE AnalyzerFactor("DEVICE", deviceWeight, deviceCap, ruleScore, "none")

\* Cache key of a device info entry.
deviceKey(deviceFingerprint) ==
    << "device", cacheHashValue(deviceFingerprint) >>

\* CacheService.getDeviceInfo.
getDeviceInfo(deviceFingerprint) ==
    LET hits == {c \in deviceCache : c.key = deviceKey(deviceFingerprint)}
    IN IF hits # {} THEN (CHOOSE c \in hits : TRUE).info ELSE NULL

\* DeviceAnalyzer.createDeviceInfo: a new device starts at trust 0.5.
createDeviceInfo(deviceFingerprint, userId) ==
    [fingerprint |-> deviceFingerprint, userId |-> userId, trustScore |-> 50]

\* CacheService.setDeviceInfo.
setDeviceInfo(deviceFingerprint, info) ==
    {c \in deviceCache : c.key # deviceKey(deviceFingerprint)}
      \cup {[key |-> deviceKey(deviceFingerprint), info |-> info]}

\* The order of the calls in the array given to Promise.allSettled.
CallOrder == << "AMOUNT", "VELOCITY", "DEVICE", "GEOGRAPHIC", "RECIPIENT", "TIME" >>

NotStarted == [pc |-> "start", local |-> NULL, factor |-> NULL]

ParallelInit ==
    /\ par = [m \in Methods |-> NotStarted]
    /\ fingerprint = "d2"
    /\ ruleInput = VelocityInputs(NoVelocity)
    /\ reference = NULL
    /\ deviceCache = {}

----------------------------------------------------------------------------
(* MLModelService.loadModel and the start of the service *)

StartupInit ==
    /\ server = "stopped"
    /\ mlModel = "none"
    /\ modelVersion = ""
    /\ modelFiles = [present |-> FALSE, hash |-> "h1", fallbackPresent |-> FALSE,
                     modelHashValidation |-> TRUE, expectedModelHash |-> ""]

\* The components around the pipeline before anything has happened.
\* The scorer before a call.
ScoringInit ==
    /\ mlFeatures = NULL
    /\ prediction = NULL

\* The service instances that share the cache, each over its own connection.
Clients == {"c1", "c2"}

\* The user, window and amount of the velocity calls they make.
velocityUser == EventOf("t1").userId
velocityWindow == "5m"
velocityAmount == EventOf("t1").amount

\* countKey and amountKey of CacheService.incrementVelocity and getVelocity.
countKey == << "velocity", "count", velocityUser, velocityWindow >>
amountKey == << "velocity", "amount", velocityUser, velocityWindow >>

\* A key without expiration.
NoTTL == -1

\* INCR and INCRBYFLOAT: an absent key counts from zero and is created
\* without expiration; an existing key keeps its TTL.
incrby(key, amount) ==
    IF redis[key] = NULL THEN [value |-> amount, ttl |-> NoTTL]
    ELSE [redis[key] EXCEPT !.value = @ + amount]

\* EXPIRE: nothing on an absent key.
expire(key, ttl) ==
    IF redis[key] = NULL THEN NULL ELSE [redis[key] EXCEPT !.ttl = ttl]

\* GET with the reply parsed as the code parses it: zero for an absent key.
get(key) == IF redis[key] = NULL THEN 0 ELSE redis[key].value

Idle == [op |-> "idle", next |-> 0, replies |-> << >>]

ClientsInit ==
    /\ redis = [k \in {countKey, amountKey} |-> NULL]
    /\ cacheCalls = [c \in Clients |-> Idle]
    /\ observations = {}
    /\ incremented = 0
    /\ callsMade = 0

----------------------------------------------------------------------------
(* AmountAnalyzer *)

\* Date.now() of the analysis, in days.
today == 400

\* AmountAnalyzer.getDefaultStats: the statistics of a user without history;
\* accountCreatedAt is the time of the call.
getDefaultStats ==
    [totalTransactions |-> 0, averageAmount |-> 0, maxAmount |-> 0,
     standardDeviation |-> 0, accountCreatedAt |-> today]

NotDetected == [detected |-> FALSE, score |-> 0, reason |-> ""]

Detected(score, reason) == [detected |-> TRUE, score |-> score, reason |-> reason]

\* AmountAnalyzer.checkUnusualAmount: amount / averageAmount against
\* unusualMultiplier and twice unusualMultiplier.
checkUnusualAmount(amount, stats) ==
    IF stats.totalTransactions < 5 \/ stats.averageAmount = 0
    THEN NotDetected
    ELSE IF amount >= unusualMultiplier * 2 * stats.averageAmount
    THEN Detected(20, "higher than user average")
    ELSE IF amount >= unusualMultiplier * stats.averageAmount
    THEN Detected(12, "higher than user average")
    ELSE NotDetected

\* A faulty variant: the rule waits for five transactions.
checkExceedsMax_fiveTransactions(amount, stats) ==
    IF stats.totalTransactions < 5 \/ stats.maxAmount = 0
    THEN NotDetected
    ELSE IF amount > stats.maxAmount * 2
    THEN Detected(15, "exceeds 2x historical max")
    ELSE IF 2 * amount > stats.maxAmount * 3
    THEN Detected(8, "exceeds 1.5x historical max")
    ELSE NotDetected

\* AmountAnalyzer.checkExceedsMax (amount > maxAmount * 1.5 is taken on
\* both sides times two).
checkExceedsMax(amount, stats) ==
    IF stats.totalTransactions < 3 \/ stats.maxAmount = 0
    THEN NotDetected
    ELSE IF amount > stats.maxAmount * 2
    THEN Detected(15, "exceeds 2x historical max")
    ELSE IF 2 * amount > stats.maxAmount * 3
    THEN Detected(8, "exceeds 1.5x historical max")
    ELSE NotDetected

\* AmountAnalyzer.checkAbsoluteLarge.
checkAbsoluteLarge(amount) ==
    IF amount >= largeTransferMin * 10 THEN Detected(12, "very large amount")
    ELSE IF amount >= largeTransferMin * 5 THEN Detected(8, "large amount")
    ELSE IF amount >= largeTransferMin THEN Detected(4, "significant amount")
    ELSE NotDetected

roundThresholds == {1000, 2000, 5000, 10000, 20000, 50000, 100000}

\* AmountAnalyzer.checkRoundNumber.
checkRoundNumber(amount) ==
    IF amount \in roundThresholds THEN Detected(5, "perfectly round amount")
    ELSE IF amount >= 500 /\ amount % 100 = 0
    THEN Detected(3, "round number amount")
    ELSE NotDetected

\* AmountAnalyzer.checkBelowReportingThreshold.
checkBelowReportingThreshold(amount) ==
    IF amount >= 9000 /\ amount < 10000
    THEN Detected(15, "just below reporting threshold")
    ELSE IF amount >= 4800 /\ amount < 5000
    THEN Detected(8, "just below common threshold")
    ELSE IF amount >= 2900 /\ amount < 3000
    THEN Detected(5, "just below common threshold")
    ELSE NotDetected

\* AmountAnalyzer.checkZScore, called with a standardDeviation above zero:
\* (amount - averageAmount) / standardDeviation against 4, 3 and 2.
checkZScore(amount, stats) ==
    LET excess == amount - stats.averageAmount
    IN IF excess >= 4 * stats.standardDeviation
       THEN Detected(18, "z-score 4+")
       ELSE IF excess >= 3 * stats.standardDeviation
       THEN Detected(12, "z-score 3+")
       ELSE IF excess >= 2 * stats.standardDeviation
       THEN Detected(6, "z-score 2+")
       ELSE NotDetected

\* AmountAnalyzer.isNewAccount: created less than 30 days ago.
isNewAccount(stats) == today - stats.accountCreatedAt < 30

RECURSIVE join(_)
\* reasons.join('; ')
join(reasons) ==
    IF Len(reasons) = 1 THEN Head(reasons)
    ELSE Head(reasons) \o "; " \o join(Tail(reasons))

\* AmountAnalyzer.analyze: the rules in the order of the code, each adding
\* its score and its reason when it detects, the cap, and the factor.
AmountAnalyzer_analyze(amount, userHistory) ==
    LET stats == IF userHistory = NULL THEN getDefaultStats
                 ELSE userHistory.statistics
        results ==
            << checkUnusualAmount(amount, stats),
               checkExceedsMax(amount, stats),
               checkAbsoluteLarge(amount),
               checkRoundNumber(amount),
               checkBelowReportingThreshold(amount),
               IF stats.standardDeviation > 0 THEN checkZScore(amount, stats)
               ELSE NotDetected,
               IF isNewAccount(stats) /\ amount > 1000
               THEN Detected(8, "large transfer from new account")
               ELSE NotDetected >>
        fired == SelectSeq(results, LAMBDA c : c.detected)
        RECURSIVE Total(_)
        Total(cs) == IF cs = << >> THEN 0 ELSE Head(cs).score + Total(Tail(cs))
        totalScore == Min(Total(fired), amountCap)
    IN [method |-> "AMOUNT", score |-> totalScore, weight |-> amountWeight,
        contributedScore |-> totalScore * amountWeight,
        reason |-> IF fired = << >> THEN "Normal transaction amount"
                   ELSE join([i \in DOMAIN fired |-> fired[i].reason]),
        details |-> NoDetails]

\* The call before it is made.
AmountInit ==
    /\ amountArgs = NULL
    /\ amountFactor = NULL

----------------------------------------------------------------------------
(* GeographicAnalyzer *)

\* new Date().getTime() of the analysis, in minutes.
currentMinute == 6000

\* transactions.find(tx => tx.country !== undefined): the first transaction
\* that has a country, or undefined.
find(transactions) ==
    LET hits == SelectSeq(transactions, LAMBDA tx : tx.country # Undefined)
    IN IF hits = << >> THEN Undefined ELSE Head(hits)

\* GeographicAnalyzer.checkImpossibleTravel: nothing without both
\* coordinates of the current location; then the first history transaction
\* with a country, and a different country less than impossibleTravelHours
\* before now.
checkImpossibleTravel(currentLocation, userHistory) ==
    IF ~Truthy(currentLocation.latitude) \/ ~Truthy(currentLocation.longitude)
    THEN NotDetected
    ELSE LET recentTx == find(userHistory.transactions)
         IN IF recentTx = Undefined THEN NotDetected
            ELSE IF ~Truthy(recentTx.timestamp) THEN NotDetected
            ELSE IF /\ Truthy(recentTx.country)
                    /\ Truthy(currentLocation.country)
                    /\ recentTx.country # currentLocation.country
                    /\ currentMinute - recentTx.timestamp.num
                         < impossibleTravelHours * 60
            THEN Detected(35, "impossible travel")
            ELSE NotDetected

\* GeographicAnalyzer.checkNewCountry.
checkNewCountry(currentLocation, knownCountries) ==
    IF ~Truthy(currentLocation.country) THEN NotDetected
    ELSE IF /\ \A i \in DOMAIN knownCountries :
                  knownCountries[i] # currentLocation.country.str
            /\ Len(knownCountries) > 0
    THEN Detected(15, "first transaction from country")
    ELSE NotDetected

\* The table of checkHighRiskCountry.
highRiskCountries ==
    ("NG" :> 12) @@ ("RU" :> 10) @@ ("CN" :> 8) @@ ("VN" :> 8) @@ ("IN" :> 5)
      @@ ("PH" :> 6) @@ ("UA" :> 8) @@ ("RO" :> 7)

\* GeographicAnalyzer.checkHighRiskCountry.
checkHighRiskCountry(currentLocation) ==
    IF ~Truthy(currentLocation.country) THEN NotDetected
    ELSE IF currentLocation.country.str \in DOMAIN highRiskCountries
    THEN Detected(highRiskCountries[currentLocation.country.str],
                  "high-risk region")
    ELSE NotDetected

\* GeographicAnalyzer.checkVPNIndicators: never detects.
checkVPNIndicators == NotDetected

\* GeographicAnalyzer.analyze.
GeographicAnalyzer_analyze(currentLocation, userHistory, knownCountries) ==
    LET results ==
            << IF userHistory # NULL /\ Len(userHistory.transactions) > 0
               THEN checkImpossibleTravel(currentLocation, userHistory)
               ELSE NotDetected,
               checkNewCountry(currentLocation, knownCountries),
               checkHighRiskCountry(currentLocation),
               IF Truthy(currentLocation.ip) THEN checkVPNIndicators
               ELSE NotDetected >>
        fired == SelectSeq(results, LAMBDA c : c.detected)
        RECURSIVE Total(_)
        Total(cs) == IF cs = << >> THEN 0 ELSE Head(cs).score + Total(Tail(cs))
        totalScore == Min(Total(fired), geographicCap)
    IN [method |-> "GEOGRAPHIC", score |-> totalScore,
        weight |-> geographicWeight,
        contributedScore |-> totalScore * geographicWeight,
        reason |-> IF fired = << >> THEN "Normal geographic pattern"
                   ELSE join([i \in DOMAIN fired |-> fired[i].reason]),
        details |-> NoDetails]

\* The call before it is made.
GeoInit ==
    /\ geoArgs = NULL
    /\ geoFactor = NULL

----------------------------------------------------------------------------
(* RecipientAnalyzer: the rules after the blocklist check *)

Recipients == {"r1", "r2"}

\* The transactions of a history made to the recipient.
TransfersTo(recipientId, userHistory) ==
    SelectSeq(userHistory.transactions,
              LAMBDA tx : tx.recipientId = recipientId)

\* The info computeRecipientInfo returns for a recipient the history does
\* not know.
UnknownRecipient(recipientId) ==
    [recipientId |-> recipientId, isNew |-> TRUE,
     firstTransactionAt |-> Undefined, totalTransactions |-> 0,
     riskScore |-> 20, isVerified |-> FALSE]

\* The earliest timestamp of the transactions (the reduce of
\* computeRecipientInfo).
RECURSIVE Earliest(_)
Earliest(txs) ==
    IF Len(txs) = 1 THEN Head(txs).timestamp
    ELSE Min(Head(txs).timestamp, Earliest(Tail(txs)))

\* RecipientAnalyzer.computeRecipientInfo: the recipient as the history of
\* the user under analysis knows it.
computeRecipientInfo(recipientId, userHistory) ==
    IF userHistory = NULL THEN UnknownRecipient(recipientId)
    ELSE LET recipientTx == TransfersTo(recipientId, userHistory)
         IN IF Len(recipientTx) = 0 THEN UnknownRecipient(recipientId)
            ELSE [recipientId |-> recipientId, isNew |-> FALSE,
                  firstTransactionAt |-> Num(Earliest(recipientTx)),
                  totalTransactions |-> Len(recipientTx),
                  riskScore |->
                      IF Len(recipientTx) >= trustedRecipientMinTransfers THEN 5
                      ELSE IF Len(recipientTx) >= 2 THEN 10
                      ELSE 20,
                  isVerified |-> TRUE]

\* CacheService.getRecipientInfo: the entry under the recipientId, or null
\* when there is none or the cache fails.
getRecipientInfo(recipientId, ok) ==
    IF ok THEN recipientInfoCache[recipientId] ELSE NULL

\* CacheService.setRecipientInfo: the entry is written under the recipientId
\* alone; a failure of the cache is logged.
setRecipientInfo(recipientId, info, ok) ==
    IF ok THEN [recipientInfoCache EXCEPT ![recipientId] = info]
    ELSE recipientInfoCache

\* RecipientAnalyzer.checkNewRecipient.
checkNewRecipient(recipientId, recipientInfo, trustedRecipients) ==
    IF \E i \in DOMAIN trustedRecipients : trustedRecipients[i] = recipientId
    THEN NotDetected
    ELSE IF recipientInfo = NULL \/ recipientInfo.isNew
    THEN Detected(15, "First transaction to this recipient")
    ELSE IF /\ Truthy(recipientInfo.firstTransactionAt)
            /\ today - recipientInfo.firstTransactionAt.num < newRecipientDays
            /\ recipientInfo.totalTransactions < 3
    THEN Detected(10, "Recent recipient")
    ELSE NotDetected

\* RecipientAnalyzer.countRecentNewRecipients: the recipients of the last
\* day that no earlier transaction of the history went to.
countRecentNewRecipients(userHistory) ==
    LET txs == userHistory.transactions
        recent == {txs[i].recipientId : i \in {j \in DOMAIN txs :
                                                  txs[j].timestamp > today - 1}}
        established == {txs[i].recipientId : i \in {j \in DOMAIN txs :
                                                  txs[j].timestamp <= today - 1}}
    IN Cardinality(recent \ established)

\* RecipientAnalyzer.analyze after a blocklist check without match: the
\* recipient info from the cache, or computed from the history of the user
\* and written to the cache; then the rules, capped.
RecipientRules(recipientId, userHistory, trustedRecipients, readOk, writeOk) ==
    LET cached == getRecipientInfo(recipientId, readOk)
        recipientInfo ==
            IF cached # NULL THEN cached
            ELSE computeRecipientInfo(recipientId, userHistory)
        isNewRecipient ==
            checkNewRecipient(recipientId, recipientInfo, trustedRecipients)
        results ==
            << isNewRecipient,
               IF recipientInfo.riskScore > 30
               THEN Detected((recipientInfo.riskScore * 20) \div 100,
                             "elevated risk score")
               ELSE NotDetected,
               IF ~recipientInfo.isVerified
               THEN Detected(5, "Recipient account not verified")
               ELSE NotDetected,
               IF /\ isNewRecipient.detected
                  /\ userHistory # NULL
                  /\ countRecentNewRecipients(userHistory) >= 3
               THEN Detected(12, "Multiple new recipients in short time")
               ELSE NotDetected >>
        fired == SelectSeq(results, LAMBDA c : c.detected)
        RECURSIVE Total(_)
        Total(cs) == IF cs = << >> THEN 0 ELSE Head(cs).score + Total(Tail(cs))
        totalScore == Min(Total(fired), recipientCap)
    IN [factor |->
            [method |-> "RECIPIENT", score |-> totalScore,
             weight |-> recipientWeight,
             contributedScore |-> totalScore * recipientWeight,
             reason |-> IF fired = << >> THEN "Normal recipient"
                        ELSE join([i \in DOMAIN fired |-> fired[i].reason]),
             details |-> [recipientId |-> recipientId,
                          isNew |-> isNewRecipient.detected,
                          recipientRiskScore |-> recipientInfo.riskScore,
                          isVerified |-> recipientInfo.isVerified]],
        cache |-> IF cached # NULL THEN recipientInfoCache
                  ELSE setRecipientInfo(recipientId, recipientInfo, writeOk)]

\* No history loaded, nothing cached, no call made.
RecipientsInit ==
    /\ userHistories = [u \in Users |-> NULL]
    /\ recipientInfoCache = [r \in Recipients |-> NULL]
    /\ recipientRuns = << >>

\* The EventConsumer after construction.
LifecycleInit ==
    /\ consumer = 0
    /\ isConnected = FALSE
    /\ isRunning = FALSE
    /\ messageHandler = FALSE
    /\ connected = {}
    /\ subscribed = {}
    /\ startResult = "none"

StandaloneInit ==
    /\ ScoringInit
    /\ ClientsInit
    /\ AmountInit
    /\ GeoInit
    /\ RecipientsInit
    /\ LifecycleInit

ComponentsInit ==
    ConsumerInit /\ VelocityInit /\ ChecksInit /\ ParallelInit /\ StartupInit

OtherInit == ComponentsInit /\ StandaloneInit

----------------------------------------------------------------------------
(* State machine *)

IdleLocals ==
    /\ cur = NoTx
    /\ startTime = 0
    /\ idemReadOk = FALSE
    /\ cachedResult = NULL
    /\ riskFactors = << >>
    /\ failedAnalyzers = {}
    /\ analysisElapsed = 0
    /\ finalResult = NULL
    /\ inserted = FALSE
    /\ saveFailed = FALSE
    /\ attempts = << >>
    /\ markerWritten = FALSE

Init ==
    /\ now = 0
    /\ thresholds = DefaultThresholds
    /\ isLoaded = FALSE
    /\ analysisCache = [t \in TxIds |-> NULL]
    /\ blocklistCache = {}
    /\ fraud_blocklist \in BlocklistTables
    /\ fraud_analyses = {}
    /\ outbox = [m \in MessageIds |-> 0]
    /\ pc = "idle"
    /\ IdleLocals
    /\ deliveries = 0
    /\ faults = 0
    /\ lastCompleted = [t \in TxIds |-> -1]
    /\ undelivered = [t \in TxIds |-> FALSE]
    /\ OtherInit

\* The consumer hands an event (a first delivery or a redelivery) to
\* processTransaction.
Deliver(tx) ==
    /\ pc = "idle"
    /\ deliveries < MaxDeliveries
    /\ pc' = "idem"
    /\ cur' = tx
    /\ startTime' = now
    /\ deliveries' = deliveries + 1
    /\ UNCHANGED otherVars
    /\ UNCHANGED << now, thresholds, isLoaded, analysisCache, blocklistCache,
                    fraud_blocklist, fraud_analyses, outbox, idemReadOk,
                    cachedResult, riskFactors, failedAnalyzers, analysisElapsed,
                    finalResult, inserted, saveFailed, attempts, markerWritten,
                    faults, lastCompleted, undelivered >>

\* Step 1 of processTransaction: the idempotency check.
IdempotencyCheck ==
    /\ pc = "idem"
    /\ \E ok \in BOOLEAN :
        /\ faults + Cost(ok) <= MaxFaults
        /\ faults' = faults + Cost(ok)
        /\ idemReadOk' = ok
        /\ cachedResult' = getCachedAnalysis(cur, ok)
        /\ pc' = IF getCachedAnalysis(cur, ok) # NULL THEN "done" ELSE "analyze"
    /\ UNCHANGED otherVars
    /\ UNCHANGED << now, thresholds, isLoaded, analysisCache, blocklistCache,
                    fraud_blocklist, fraud_analyses, outbox, cur, startTime,
                    riskFactors, failedAnalyzers, analysisElapsed, finalResult,
                    inserted, saveFailed, attempts, markerWritten, deliveries,
                    lastCompleted, undelivered >>

\* Steps 2 and 3: the six analyzers run under Promise.allSettled and the
\* fulfilled, non-null results are collected.
RunAnalyzers ==
    /\ pc = "analyze"
    /\ \E in \in RuleInputs, fail \in FailureChoices(MaxFaults - faults),
          cacheOk \in BOOLEAN, dbOk \in BOOLEAN, saveOk \in BOOLEAN :
       LET transaction == EventOf(cur)
           cost == Cardinality(Failing(fail)) + Cost(cacheOk) + Cost(dbOk)
                     + Cost(saveOk)
           matches == BlocklistMatches(transaction.recipientId,
                                       transaction.destinationAccountId)
       IN /\ faults + cost <= MaxFaults
          \* a failing lookup is only drawn where there is a row to miss
          /\ matches = {} => cacheOk /\ dbOk /\ saveOk
          /\ faults' = faults + cost
          /\ \E row \in (IF matches = {} THEN {NULL} ELSE matches) :
               LET rec == RecipientAnalyzer_analyze(transaction, in.recipient,
                                                    fail["RECIPIENT"], cacheOk, dbOk,
                                                    saveOk, row)
                   results == SettledResults(transaction, in, fail, rec.factor)
               IN /\ riskFactors' = CollectFactors(results)
                  /\ failedAnalyzers' = {m \in Methods : fail[m] = "thrown"}
                  /\ blocklistCache' = rec.cache
                  /\ fraud_blocklist' = rec.table
                  /\ analysisElapsed' = in.elapsedMs
    /\ pc' = "ml"
    /\ UNCHANGED otherVars
    /\ UNCHANGED << now, thresholds, isLoaded, analysisCache, fraud_analyses,
                    outbox, cur, startTime, idemReadOk, cachedResult, finalResult,
                    inserted, saveFailed, attempts, markerWritten, deliveries,
                    lastCompleted, undelivered >>

\* Steps 4 and 5: the ML prediction (loading the model first when it is not
\* ready), the ML_MODEL factor and calculateFinalDecision.
MLPredict ==
    /\ pc = "ml"
    /\ \E inference \in {"ok", "timeout", "throw"} :
       LET mlResult == predict(constructMLFeatures(EventOf(cur), riskFactors),
                               inference)
           factors == Append(riskFactors, MLFactor(mlResult))
       IN /\ faults + Cost(inference = "ok") <= MaxFaults
          /\ faults' = faults + Cost(inference = "ok")
          /\ riskFactors' = factors
          /\ analysisElapsed' = analysisElapsed
                + (IF inference = "timeout" THEN inferenceTimeoutMs ELSE 0)
          /\ finalResult' = calculateFinalDecision(cur, factors, thresholds)
    /\ isLoaded' = TRUE
    /\ pc' = "save"
    /\ UNCHANGED otherVars
    /\ UNCHANGED << now, thresholds, analysisCache, blocklistCache,
                    fraud_blocklist, fraud_analyses, outbox, cur, startTime,
                    idemReadOk, cachedResult, failedAnalyzers, inserted,
                    saveFailed, attempts, markerWritten, deliveries,
                    lastCompleted, undelivered >>

\* The row saveAnalysis hands to FraudAnalysis.create.
AnalysisRow(result) ==
    [transactionId |-> result.transactionId, score |-> result.score,
     decision |-> result.decision, status |-> result.status,
     requiresManualReview |-> result.requiresManualReview]

\* A faulty variant: no unique index on transaction_id.
CreateSucceeds_noIndex(result, dbOk) == dbOk

\* FraudAnalysis.create succeeds when the database answers and no row holds
\* the transactionId (unique index on transaction_id).
CreateSucceeds(result, dbOk) ==
    dbOk /\ \A r \in fraud_analyses : r.transactionId # result.transactionId

\* A faulty variant: a rejected create is not caught, so processTransaction
\* rethrows it and neither publishes nor writes the marker.
SaveAnalysis_aborting ==
    /\ pc = "save"
    /\ \E dbOk \in BOOLEAN :
        /\ faults + Cost(dbOk) <= MaxFaults
        /\ faults' = faults + Cost(dbOk)
        /\ IF CreateSucceeds(finalResult, dbOk)
           THEN /\ fraud_analyses' = fraud_analyses \cup {AnalysisRow(finalResult)}
                /\ inserted' = TRUE
                /\ saveFailed' = FALSE
                /\ pc' = "publish"
           ELSE /\ fraud_analyses' = fraud_analyses
                /\ inserted' = FALSE
                /\ saveFailed' = TRUE
                /\ pc' = "done"
    /\ UNCHANGED otherVars
    /\ UNCHANGED << now, thresholds, isLoaded, analysisCache, blocklistCache,
                    fraud_blocklist, outbox, cur, startTime, idemReadOk,
                    cachedResult, riskFactors, failedAnalyzers, analysisElapsed,
                    finalResult, attempts, markerWritten, deliveries,
                    lastCompleted, undelivered >>

\* Step 6: saveAnalysis; a rejected create is logged and swallowed.
SaveAnalysis ==
    /\ pc = "save"
    /\ \E dbOk \in BOOLEAN :
        /\ faults + Cost(dbOk) <= MaxFaults
        /\ faults' = faults + Cost(dbOk)
        /\ IF CreateSucceeds(finalResult, dbOk)
           THEN /\ fraud_analyses' = fraud_analyses \cup {AnalysisRow(finalResult)}
                /\ inserted' = TRUE
                /\ saveFailed' = FALSE
           ELSE /\ fraud_analyses' = fraud_analyses
                /\ inserted' = FALSE
                /\ saveFailed' = TRUE
    /\ pc' = "publish"
    /\ UNCHANGED otherVars
    /\ UNCHANGED << now, thresholds, isLoaded, analysisCache, blocklistCache,
                    fraud_blocklist, outbox, cur, startTime, idemReadOk,
                    cachedResult, riskFactors, failedAnalyzers, analysisElapsed,
                    finalResult, attempts, markerWritten, deliveries,
                    lastCompleted, undelivered >>

\* Step 7: publishResult.
PublishResult ==
    /\ pc = "publish"
    /\ \E ok1 \in BOOLEAN, ok2 \in BOOLEAN :
        /\ faults + Cost(ok1) + Cost(ok2) <= MaxFaults
        /\ faults' = faults + Cost(ok1) + Cost(ok2)
        /\ attempts' = publishResult(finalResult, ok1, ok2)
        /\ outbox' = Delivered(outbox, publishResult(finalResult, ok1, ok2))
    /\ pc' = "cache"
    /\ UNCHANGED otherVars
    /\ UNCHANGED << now, thresholds, isLoaded, analysisCache, blocklistCache,
                    fraud_blocklist, fraud_analyses, cur, startTime, idemReadOk,
                    cachedResult, riskFactors, failedAnalyzers, analysisElapsed,
                    finalResult, inserted, saveFailed, markerWritten, deliveries,
                    lastCompleted, undelivered >>

\* The value processTransaction memoizes under the transactionId.
Marker(result) == [decision |-> result.decision, score |-> result.score]

\* Step 8: the idempotency marker is written.
CacheAnalysis ==
    /\ pc = "cache"
    /\ \E ok \in BOOLEAN :
        /\ faults + Cost(ok) <= MaxFaults
        /\ faults' = faults + Cost(ok)
        /\ analysisCache' = cacheAnalysis(cur, Marker(finalResult), ok)
        /\ markerWritten' = ok
    /\ pc' = "done"
    /\ UNCHANGED otherVars
    /\ UNCHANGED << now, thresholds, isLoaded, blocklistCache, fraud_blocklist,
                    fraud_analyses, outbox, cur, startTime, idemReadOk,
                    cachedResult, riskFactors, failedAnalyzers, analysisElapsed,
                    finalResult, inserted, saveFailed, attempts, deliveries,
                    lastCompleted, undelivered >>

\* processTransaction returns to the consumer.
Finish ==
    /\ pc = "done"
    /\ pc' = "idle"
    /\ lastCompleted' = IF cachedResult = NULL
                        THEN [lastCompleted EXCEPT ![cur] = now]
                        ELSE lastCompleted
    /\ undelivered' = IF cachedResult = NULL
                      THEN [undelivered EXCEPT ![cur] =
                               \E i \in DOMAIN attempts : ~attempts[i].sent]
                      ELSE undelivered
    /\ cur' = NoTx
    /\ startTime' = 0
    /\ idemReadOk' = FALSE
    /\ cachedResult' = NULL
    /\ riskFactors' = << >>
    /\ failedAnalyzers' = {}
    /\ analysisElapsed' = 0
    /\ finalResult' = NULL
    /\ inserted' = FALSE
    /\ saveFailed' = FALSE
    /\ attempts' = << >>
    /\ markerWritten' = FALSE
    /\ UNCHANGED otherVars
    /\ UNCHANGED << now, thresholds, isLoaded, analysisCache, blocklistCache,
                    fraud_blocklist, fraud_analyses, outbox, deliveries, faults >>

\* Time passes between two deliveries.
Wait ==
    /\ pc = "idle"
    /\ 0 < deliveries /\ deliveries < MaxDeliveries
    /\ now + HalfTTL <= MaxWaits * HalfTTL
    /\ now' = now + HalfTTL
    /\ UNCHANGED otherVars
    /\ UNCHANGED << thresholds, isLoaded, analysisCache, blocklistCache,
                    fraud_blocklist, fraud_analyses, outbox, pc, cur, startTime,
                    idemReadOk, cachedResult, riskFactors, failedAnalyzers,
                    analysisElapsed, finalResult, inserted, saveFailed, attempts,
                    markerWritten, deliveries, faults, lastCompleted, undelivered >>

Next ==
    \/ \E tx \in TxIds : Deliver(tx)
    \/ IdempotencyCheck
    \/ RunAnalyzers
    \/ MLPredict
    \/ SaveAnalysis
    \/ PublishResult
    \/ CacheAnalysis
    \/ Finish
    \/ Wait

Spec == Init /\ [][Next]_vars

----------------------------------------------------------------------------
(* Aggregation on its own: the ML step and calculateFinalDecision applied   *)
(* to every list of factors the analyzers can hand over, under several      *)
(* threshold configurations.                                                *)

\* What the rules of each analyzer can add up to: nothing, or more than the
\* analyzer's cap.
DecisionInputs ==
    [amount : {0, 55}, velocityData : {NoVelocity, BurstVelocity},
     device : {0, 45}, geographic : {0, 60}, recipient : {0, 60},
     time : {0, 30}, elapsedMs : {0}]

\* The factor lists the fan-in can collect for a transaction.
\* blocked: the blocklist check of RecipientAnalyzer found a match.
FactorLists(transaction) ==
    { CollectFactors(SettledResults(transaction, in, fail,
          IF fail["RECIPIENT"] = "thrown" THEN Rejected
          ELSE IF blocked THEN BlocklistFactor
          ELSE AnalyzerFactor("RECIPIENT", recipientWeight, recipientCap,
                              in.recipient, fail["RECIPIENT"]))) :
        in \in DecisionInputs, fail \in FailureChoices(MaxFaults),
        blocked \in BOOLEAN }

\* config.thresholds as the environment can set it: the defaults, a lower
\* pair, and a pair with rejectMin below suspiciousMin (the values are read
\* from the environment as they come).
ThresholdPairs ==
    { DefaultThresholds,
      [suspiciousMin |-> 1000, rejectMin |-> 6000],
      [suspiciousMin |-> rejectMinDefault, rejectMin |-> suspiciousMinDefault] }

InitDecision ==
    /\ now = 0
    /\ thresholds \in ThresholdPairs
    /\ isLoaded \in BOOLEAN
    /\ analysisCache = [t \in TxIds |-> NULL]
    /\ blocklistCache = {}
    /\ fraud_blocklist \in BlocklistTables
    /\ fraud_analyses = {}
    /\ outbox = [m \in MessageIds |-> 0]
    /\ pc = "ml"
    /\ cur \in TxIds
    /\ startTime = 0
    /\ idemReadOk = TRUE
    /\ cachedResult = NULL
    /\ riskFactors \in FactorLists(EventOf(cur))
    /\ failedAnalyzers = {}
    /\ analysisElapsed = 0
    /\ finalResult = NULL
    /\ inserted = FALSE
    /\ saveFailed = FALSE
    /\ attempts = << >>
    /\ markerWritten = FALSE
    /\ deliveries = 1
    /\ faults = 0
    /\ lastCompleted = [t \in TxIds |-> -1]
    /\ undelivered = [t \in TxIds |-> FALSE]
    /\ OtherInit

NextDecision == MLPredict

SpecDecision == InitDecision /\ [][NextDecision]_vars

----------------------------------------------------------------------------
(* The consumer on its own: handleMessage on every kind of message. *)

\* The pipeline at rest, as the specifications of single components keep it
\* (the blocklist table apart).
PipelineAtRest ==
    /\ now = 0
    /\ thresholds = DefaultThresholds
    /\ isLoaded = FALSE
    /\ analysisCache = [t \in TxIds |-> NULL]
    /\ blocklistCache = {}
    /\ fraud_analyses = {}
    /\ outbox = [m \in MessageIds |-> 0]
    /\ pc = "idle"
    /\ IdleLocals
    /\ deliveries = 0
    /\ faults = 0
    /\ lastCompleted = [t \in TxIds |-> -1]
    /\ undelivered = [t \in TxIds |-> FALSE]

\* The same with an empty blocklist.
PipelineIdle == PipelineAtRest /\ fraud_blocklist = {}

InitConsumer == PipelineIdle /\ OtherInit

\* eachMessage: the consumer hands one message to handleMessage.
Consume ==
    /\ consumed < MaxMessages
    /\ \E msg \in Messages, handlerOk \in BOOLEAN :
         LET r == handleMessage(msg, handlerOk)
         IN /\ message' = msg
            /\ handlerInvoked' = r.invoked
            /\ handleOutcome' = r.outcome
    /\ consumed' = consumed + 1
    /\ UNCHANGED << pipelineVars, velocityVars, checkVars, parallelVars,
                    startupVars, standaloneVars >>

NextConsumer == Consume

SpecConsumer == InitConsumer /\ [][NextConsumer]_vars

----------------------------------------------------------------------------
(* The velocity counters under a stream of events and a running clock. *)

\* The pipeline variables a transfer without blocklist entry leaves alone
\* once its call has returned.
velocityFrame ==
    << thresholds, isLoaded, blocklistCache, fraud_blocklist, fraud_analyses,
       outbox, pc, cur, startTime, idemReadOk, cachedResult, riskFactors,
       failedAnalyzers, analysisElapsed, finalResult, inserted, saveFailed,
       attempts, markerWritten, deliveries, lastCompleted, undelivered >>

InitVelocity == PipelineIdle /\ OtherInit

\* processTransaction on the event of tx, as far as the idempotency marker
\* and the velocity counters go: a marker that is found ends the call before
\* any analyzer runs; otherwise VelocityAnalyzer.analyze reads the counters
\* and increments them, and the result is cached under the transactionId.
ProcessEvent(tx) ==
    /\ Len(processed) < MaxEvents
    /\ \E idemOk \in BOOLEAN, readOk \in BOOLEAN, incrOk \in BOOLEAN,
          markOk \in BOOLEAN :
         LET transaction == EventOf(tx)
             cached == getCachedAnalysis(tx, idemOk)
             velocityData == getVelocityData(transaction.userId, readOk)
             result == AnalysisOf(transaction, velocityData)
             cost == Cost(idemOk) + Cost(readOk) + Cost(incrOk) + Cost(markOk)
         IN /\ faults + cost <= MaxFaults
            /\ faults' = faults + cost
            /\ IF cached # NULL
               THEN /\ readOk /\ incrOk /\ markOk
                    /\ processed' = Append(processed,
                           [transactionId |-> tx, userId |-> transaction.userId,
                            amount |-> transaction.amount, at |-> now,
                            analysed |-> FALSE, counted |-> FALSE])
                    /\ UNCHANGED << velocity, analysisCache >>
               ELSE /\ velocity' = VelocityAnalyzer_incrementVelocity(
                                       transaction.userId, transaction.amount, incrOk)
                    /\ analysisCache' = cacheAnalysis(tx, result, markOk)
                    /\ processed' = Append(processed,
                           [transactionId |-> tx, userId |-> transaction.userId,
                            amount |-> transaction.amount, at |-> now,
                            analysed |-> TRUE, counted |-> incrOk])
    /\ UNCHANGED << now, ticks, velocityFrame, consumerVars, checkVars,
                    parallelVars, startupVars,
                    standaloneVars >>

\* The steps of the clock: minutes, the better part of an hour, a day.
TimeSteps == {200, 3500, ttlTwentyFourHours}

\* Time passes between two events.
Tick ==
    /\ ticks < MaxTicks
    /\ \E dt \in TimeSteps : now' = now + dt
    /\ ticks' = ticks + 1
    /\ UNCHANGED << analysisCache, velocity, processed, faults, velocityFrame,
                    consumerVars, checkVars, parallelVars,
                    startupVars, standaloneVars >>

NextVelocity == (\E tx \in TxIds : ProcessEvent(tx)) \/ Tick

SpecVelocity == InitVelocity /\ [][NextVelocity]_vars

----------------------------------------------------------------------------
(* RecipientAnalyzer.checkBlocklist, one await at a time, in analyses that
   run side by side on transfers to the same blocklisted recipient. *)

checkFrame ==
    << now, thresholds, isLoaded, analysisCache, fraud_analyses, outbox, pc,
       cur, startTime, idemReadOk, cachedResult, riskFactors, failedAnalyzers,
       analysisElapsed, finalResult, inserted, saveFailed, attempts,
       markerWritten, deliveries, lastCompleted, undelivered >>

\* The tables the checks run on: a permanent block of the recipient or of
\* its account, or a temporary block of one of them that has expired at the
\* time of the checks or expires later.
CheckedTables ==
    BlocklistTables
      \cup { {TemporaryRow(type, IF type = "RECIPIENT" THEN "r2" ELSE "a2", at)} :
               type \in {"RECIPIENT", "ACCOUNT"}, at \in {0, analysisResultTTL} }

InitChecks ==
    /\ PipelineAtRest
    /\ fraud_blocklist \in CheckedTables
    /\ OtherInit

\* The transfer every one of these analyses looks at.
Checked == EventOf("t2")

\* The check returns to analyze (the catch block included).
Return(w, detected) ==
    /\ checks' = [checks EXCEPT ![w] = [pc |-> "idle", instance |-> NULL]]
    /\ matched' = matched + (IF detected THEN 1 ELSE 0)

\* analyze calls checkBlocklist.
StartCheck(w) ==
    /\ checks[w].pc = "idle"
    /\ started < MaxChecks
    /\ started' = started + 1
    /\ checks' = [checks EXCEPT ![w].pc = "cache"]
    /\ UNCHANGED << matched, blocklistCache, fraud_blocklist, faults, checkFrame,
                    consumerVars, velocityVars,
                    parallelVars, startupVars,
                    standaloneVars >>

\* The two isInBlocklist reads: a cached active entry ends the check with a
\* match, and nothing else is done.
CheckCache(w) ==
    /\ checks[w].pc = "cache"
    /\ \E cacheOk \in BOOLEAN :
         LET cachedBlock == isInBlocklist("RECIPIENT", Checked.recipientId, cacheOk)
             cachedAccountBlock ==
                 isInBlocklist("ACCOUNT", Checked.destinationAccountId, cacheOk)
         IN /\ faults + Cost(cacheOk) <= MaxFaults
            /\ faults' = faults + Cost(cacheOk)
            /\ IF \/ (cachedBlock # NULL /\ cachedBlock.isActive)
                  \/ (cachedAccountBlock # NULL /\ cachedAccountBlock.isActive)
               THEN Return(w, TRUE)
               ELSE /\ checks' = [checks EXCEPT ![w].pc = "find"]
                    /\ UNCHANGED matched
    /\ UNCHANGED << started, blocklistCache, fraud_blocklist, checkFrame,
                    consumerVars, velocityVars,
                    parallelVars, startupVars,
                    standaloneVars >>

\* FraudBlocklist.findOne: the instance holds the row as it is now.
FindOne(w) ==
    /\ checks[w].pc = "find"
    /\ \E dbOk \in BOOLEAN :
         LET rows == BlocklistMatches(Checked.recipientId,
                                      Checked.destinationAccountId)
         IN /\ faults + Cost(dbOk) <= MaxFaults
            /\ faults' = faults + Cost(dbOk)
            /\ IF ~dbOk \/ rows = {}
               THEN Return(w, FALSE)
               ELSE /\ \E row \in rows :
                         checks' = [checks EXCEPT ![w] =
                                       [pc |-> "add", instance |-> row]]
                    /\ UNCHANGED matched
    /\ UNCHANGED << started, blocklistCache, fraud_blocklist, checkFrame,
                    consumerVars, velocityVars,
                    parallelVars, startupVars,
                    standaloneVars >>

\* addToBlocklistCache with the entry found.
AddToCache(w) ==
    /\ checks[w].pc = "add"
    /\ \E cacheOk \in BOOLEAN :
         LET row == checks[w].instance
         IN /\ faults + Cost(cacheOk) <= MaxFaults
            /\ faults' = faults + Cost(cacheOk)
            /\ blocklistCache' = addToBlocklistCache(
                                     [type |-> row.type, value |-> row.value,
                                      isActive |-> row.isActive], cacheOk)
    /\ checks' = [checks EXCEPT ![w].pc = "record"]
    /\ UNCHANGED << started, matched, fraud_blocklist, checkFrame, consumerVars,
                    velocityVars, parallelVars, startupVars,
                    standaloneVars >>

\* blocklistEntry.recordMatch(): the instance's count plus one is saved; a
\* save that rejects lands in the catch block.
RecordMatch(w) ==
    /\ checks[w].pc = "record"
    /\ \E saveOk \in BOOLEAN :
         /\ faults + Cost(saveOk) <= MaxFaults
         /\ faults' = faults + Cost(saveOk)
         /\ fraud_blocklist' = IF saveOk THEN recordMatch(checks[w].instance)
                               ELSE fraud_blocklist
         /\ Return(w, saveOk)
    /\ UNCHANGED << started, blocklistCache, checkFrame, consumerVars,
                    velocityVars, parallelVars, startupVars,
                    standaloneVars >>

NextChecks ==
    \E w \in Workers :
        \/ StartCheck(w)
        \/ CheckCache(w)
        \/ FindOne(w)
        \/ AddToCache(w)
        \/ RecordMatch(w)

SpecChecks == InitChecks /\ [][NextChecks]_vars

----------------------------------------------------------------------------
(* One analysis with its six analyzers interleaved at their awaits. *)

parallelFrame ==
    << now, thresholds, isLoaded, analysisCache, fraud_analyses, outbox, pc,
       cur, startTime, idemReadOk, cachedResult, failedAnalyzers,
       analysisElapsed, inserted, saveFailed, attempts, markerWritten,
       deliveries, faults, lastCompleted, undelivered, consumerVars,
       checkVars, processed, ticks, fingerprint, ruleInput, reference,
       startupVars, standaloneVars >>

\* The event analysed: the transfer of t2 with a device fingerprint.
Analysed == EventOf("t2")

\* The blocklist rows the analysis can start from: the recipient listed, the
\* device listed, and a DEVICE row whose value is the recipient's id.
ParallelRows ==
    { BlocklistRow("RECIPIENT", "r2"), BlocklistRow("DEVICE", "d2"),
      BlocklistRow("DEVICE", "r2") }

\* The velocity keys that answer a read with the given counters.
SeededKeys(velocityData) ==
    IF velocityData.transactionsFiveMin = 0
    THEN [w \in Windows |-> NULL]
    ELSE [w \in Windows |->
            [count |-> IF w = "5m" THEN velocityData.transactionsFiveMin
                       ELSE IF w = "1h" THEN velocityData.transactionsOneHour
                       ELSE velocityData.transactionsTwentyFourHours,
             totalAmount |-> IF w = "5m" THEN velocityData.amountFiveMin
                             ELSE IF w = "1h" THEN velocityData.amountOneHour
                             ELSE velocityData.amountTwentyFourHours,
             expiresAt |-> WindowTTL(w)]]

\* Every analyzer run on its own on the present state, in the order of the
\* calls, with the ML factor and the decision that follow.
ReferenceAnalysis ==
    LET matches == BlocklistMatches(Analysed.recipientId,
                                    Analysed.destinationAccountId)
        row == IF matches = {} THEN NULL ELSE CHOOSE e \in matches : TRUE
        rec == RecipientAnalyzer_analyze(Analysed, ruleInput.recipient, "none",
                                         TRUE, TRUE, TRUE, row).factor
        none == [m \in Methods |-> "none"]
        in == [ruleInput EXCEPT
                  !.velocityData = getVelocityData(Analysed.userId, TRUE)]
        settled == SettledResults(Analysed, in, none, rec)
        rules == [settled EXCEPT
                     ![3] = DeviceAnalyzer_analyze(fingerprint, ruleInput.device)]
        ml == predict(constructMLFeatures(Analysed, rules), "ok")
        factors == Append(rules, MLFactor(ml))
    IN [factors |-> factors,
        result |-> calculateFinalDecision(Analysed.transactionId, factors,
                                          thresholds)]

InitParallel ==
    /\ PipelineAtRest
    /\ fraud_blocklist \in SUBSET ParallelRows
    /\ ConsumerInit
    /\ ChecksInit
    /\ StartupInit
    /\ StandaloneInit
    /\ processed = << >>
    /\ ticks = 0
    /\ ruleInput \in RuleInputs
    /\ velocity = [u \in Users |->
                     IF u = Analysed.userId
                     THEN SeededKeys(ruleInput.velocityData)
                     ELSE [w \in Windows |-> NULL]]
    /\ fingerprint \in {"d2", "r2"}
    /\ par = [m \in Methods |-> NotStarted]
    /\ reference = ReferenceAnalysis
    /\ deviceCache = {}

\* An analyzer's call resolves with its factor.
Resolve(m, factor) ==
    par' = [par EXCEPT ![m] = [pc |-> "done", local |-> NULL, factor |-> factor]]

Goto(m, label, local) ==
    par' = [par EXCEPT ![m] = [pc |-> label, local |-> local, factor |-> NULL]]

\* AmountAnalyzer, GeographicAnalyzer and TimeAnalyzer work on the user
\* history handed to them and touch neither cache nor database.
RulesAnalyze(m) ==
    /\ m \in {"AMOUNT", "GEOGRAPHIC", "TIME"}
    /\ par[m].pc = "start"
    /\ Resolve(m, CASE m = "AMOUNT" ->
                         AnalyzerFactor(m, amountWeight, amountCap,
                                        ruleInput.amount, "none")
                    [] m = "GEOGRAPHIC" ->
                         AnalyzerFactor(m, geographicWeight, geographicCap,
                                        ruleInput.geographic, "none")
                    [] OTHER ->
                         AnalyzerFactor(m, timeWeight, timeCap,
                                        ruleInput.time, "none"))
    /\ UNCHANGED << velocity, blocklistCache, fraud_blocklist, riskFactors,
                    finalResult, deviceCache >>
    /\ UNCHANGED parallelFrame

\* VelocityAnalyzer.analyze: the counters are read ...
VelocityRead ==
    /\ par["VELOCITY"].pc = "start"
    /\ Goto("VELOCITY", "increment", getVelocityData(Analysed.userId, TRUE))
    /\ UNCHANGED << velocity, blocklistCache, fraud_blocklist, riskFactors,
                    finalResult, deviceCache >>
    /\ UNCHANGED parallelFrame

\* ... and then incremented; the factor comes from the counters read.
VelocityIncrement ==
    /\ par["VELOCITY"].pc = "increment"
    /\ velocity' = VelocityAnalyzer_incrementVelocity(Analysed.userId,
                                                      Analysed.amount, TRUE)
    /\ Resolve("VELOCITY",
               VelocityAnalyzer_analyze(par["VELOCITY"].local, Analysed.amount,
                                        "none"))
    /\ UNCHANGED << blocklistCache, fraud_blocklist, riskFactors, finalResult,
                    deviceCache >>
    /\ UNCHANGED parallelFrame

\* RecipientAnalyzer.checkBlocklist: the two cache reads.
RecipientCache ==
    /\ par["RECIPIENT"].pc = "start"
    /\ LET cachedBlock == isInBlocklist("RECIPIENT", Analysed.recipientId, TRUE)
           cachedAccountBlock ==
               isInBlocklist("ACCOUNT", Analysed.destinationAccountId, TRUE)
       IN IF \/ (cachedBlock # NULL /\ cachedBlock.isActive)
             \/ (cachedAccountBlock # NULL /\ cachedAccountBlock.isActive)
          THEN Resolve("RECIPIENT", BlocklistFactor)
          ELSE Goto("RECIPIENT", "find", NULL)
    /\ UNCHANGED << velocity, blocklistCache, fraud_blocklist, riskFactors,
                    finalResult, deviceCache >>
    /\ UNCHANGED parallelFrame

\* findOne by the two hashes, whatever the type of the row; without a row
\* the rules of the analyzer decide.
RecipientFind ==
    /\ par["RECIPIENT"].pc = "find"
    /\ LET rows == BlocklistMatches(Analysed.recipientId,
                                    Analysed.destinationAccountId)
       IN IF rows = {}
          THEN Resolve("RECIPIENT",
                       AnalyzerFactor("RECIPIENT", recipientWeight, recipientCap,
                                      ruleInput.recipient, "none"))
          ELSE \E row \in rows : Goto("RECIPIENT", "add", row)
    /\ UNCHANGED << velocity, blocklistCache, fraud_blocklist, riskFactors,
                    finalResult, deviceCache >>
    /\ UNCHANGED parallelFrame

\* addToBlocklistCache under the type of the row found.
RecipientAdd ==
    /\ par["RECIPIENT"].pc = "add"
    /\ blocklistCache' = addToBlocklistCache(
                             CacheEntry(par["RECIPIENT"].local.type,
                                        par["RECIPIENT"].local), TRUE)
    /\ Goto("RECIPIENT", "record", par["RECIPIENT"].local)
    /\ UNCHANGED << velocity, fraud_blocklist, riskFactors, finalResult,
                    deviceCache >>
    /\ UNCHANGED parallelFrame

RecipientRecord ==
    /\ par["RECIPIENT"].pc = "record"
    /\ fraud_blocklist' = recordMatch(par["RECIPIENT"].local)
    /\ Resolve("RECIPIENT", BlocklistFactor)
    /\ UNCHANGED << velocity, blocklistCache, riskFactors, finalResult,
                    deviceCache >>
    /\ UNCHANGED parallelFrame

\* DeviceAnalyzer.checkBlocklist: the cache read.
DeviceCache ==
    /\ par["DEVICE"].pc = "start"
    /\ LET cached == isInBlocklist("DEVICE", fingerprint, TRUE)
       IN IF cached # NULL /\ cached.isActive
          THEN Resolve("DEVICE", DeviceBlocklistFactor)
          ELSE Goto("DEVICE", "find", NULL)
    /\ UNCHANGED << velocity, blocklistCache, fraud_blocklist, riskFactors,
                    finalResult, deviceCache >>
    /\ UNCHANGED parallelFrame

\* findOne by type DEVICE and the hash of the fingerprint.
DeviceFind ==
    /\ par["DEVICE"].pc = "find"
    /\ LET rows == DeviceMatches(fingerprint)
       IN IF rows = {}
          THEN Goto("DEVICE", "info", NULL)
          ELSE \E row \in rows : Goto("DEVICE", "record", row)
    /\ UNCHANGED << velocity, blocklistCache, fraud_blocklist, riskFactors,
                    finalResult, deviceCache >>
    /\ UNCHANGED parallelFrame

\* Here recordMatch comes before the cache write.
DeviceRecord ==
    /\ par["DEVICE"].pc = "record"
    /\ fraud_blocklist' = recordMatch(par["DEVICE"].local)
    /\ Goto("DEVICE", "add", par["DEVICE"].local)
    /\ UNCHANGED << velocity, blocklistCache, riskFactors, finalResult,
                    deviceCache >>
    /\ UNCHANGED parallelFrame

DeviceAdd ==
    /\ par["DEVICE"].pc = "add"
    /\ blocklistCache' = addToBlocklistCache(
                             [CacheEntry("DEVICE", par["DEVICE"].local)
                                 EXCEPT !.isActive = TRUE], TRUE)
    /\ Resolve("DEVICE", DeviceBlocklistFactor)
    /\ UNCHANGED << velocity, fraud_blocklist, riskFactors, finalResult,
                    deviceCache >>
    /\ UNCHANGED parallelFrame

\* Without a blocklist match the device info is read and, when absent,
\* created and cached; then the rules of the analyzer decide.
DeviceInfo ==
    /\ par["DEVICE"].pc = "info"
    /\ deviceCache' = IF getDeviceInfo(fingerprint) = NULL
                      THEN setDeviceInfo(fingerprint,
                               createDeviceInfo(fingerprint, Analysed.userId))
                      ELSE deviceCache
    /\ Resolve("DEVICE",
               AnalyzerFactor("DEVICE", deviceWeight, deviceCap,
                              ruleInput.device, "none"))
    /\ UNCHANGED << velocity, blocklistCache, fraud_blocklist, riskFactors,
                    finalResult >>
    /\ UNCHANGED parallelFrame

\* Promise.allSettled has resolved: the factors are collected in the order
\* of the calls, the ML factor is added and the decision taken.
Aggregate ==
    /\ \A m \in Methods : par[m].pc = "done"
    /\ finalResult = NULL
    /\ LET rules == CollectFactors([i \in 1..Len(CallOrder) |->
                                       safeAnalyze(par[CallOrder[i]].factor)])
           ml == predict(constructMLFeatures(Analysed, rules), "ok")
           factors == Append(rules, MLFactor(ml))
       IN /\ riskFactors' = factors
          /\ finalResult' = calculateFinalDecision(Analysed.transactionId,
                                                   factors, thresholds)
    /\ UNCHANGED << par, velocity, blocklistCache, fraud_blocklist,
                    deviceCache >>
    /\ UNCHANGED parallelFrame

NextParallel ==
    \/ \E m \in Methods : RulesAnalyze(m)
    \/ VelocityRead
    \/ VelocityIncrement
    \/ RecipientCache
    \/ RecipientFind
    \/ RecipientAdd
    \/ RecipientRecord
    \/ DeviceCache
    \/ DeviceFind
    \/ DeviceRecord
    \/ DeviceAdd
    \/ DeviceInfo
    \/ Aggregate

SpecParallel == InitParallel /\ [][NextParallel]_vars

----------------------------------------------------------------------------
(* startServer, one await at a time. *)

startupFrame ==
    << now, thresholds, analysisCache, blocklistCache, fraud_blocklist,
       fraud_analyses, outbox, pc, cur, startTime, idemReadOk, cachedResult,
       riskFactors, failedAnalyzers, analysisElapsed, finalResult, inserted,
       saveFailed, attempts, markerWritten, deliveries, faults, lastCompleted,
       undelivered, consumerVars, velocityVars, checkVars, parallelVars,
       modelFiles, standaloneVars >>

InitStartup ==
    /\ PipelineIdle
    /\ ConsumerInit
    /\ VelocityInit
    /\ ChecksInit
    /\ ParallelInit
    /\ StandaloneInit
    /\ server = "starting"
    /\ mlModel = "none"
    /\ modelVersion = ""
    /\ modelFiles \in ModelFiles

\* An await of startServer other than loadModel resolves, or it rejects and
\* the catch block ends the process.
Proceed(to) == \E ok \in BOOLEAN : server' = IF ok THEN to ELSE "exited"

InitializeDatabase ==
    /\ server = "starting"
    /\ Proceed("database")
    /\ UNCHANGED << isLoaded, mlModel, modelVersion, startupFrame >>

ConnectCache ==
    /\ server = "database"
    /\ Proceed("cache")
    /\ UNCHANGED << isLoaded, mlModel, modelVersion, startupFrame >>

\* mlModelService.loadModel().
LoadModel ==
    /\ server = "cache"
    /\ \E readOk \in BOOLEAN :
         LET r == loadModel(modelFiles, readOk)
         IN /\ mlModel' = r.model
            /\ modelVersion' = r.modelVersion
            /\ isLoaded' = r.isLoaded
            /\ server' = IF r.thrown THEN "exited" ELSE "model"
    /\ UNCHANGED startupFrame

ConnectPublisher ==
    /\ server = "model"
    /\ Proceed("publisher")
    /\ UNCHANGED << isLoaded, mlModel, modelVersion, startupFrame >>

\* setHandler, connect and start of the consumer: from here on events are
\* handed to processTransaction.
StartConsumer ==
    /\ server = "publisher"
    /\ Proceed("consuming")
    /\ UNCHANGED << isLoaded, mlModel, modelVersion, startupFrame >>

Listen ==
    /\ server = "consuming"
    /\ Proceed("listening")
    /\ UNCHANGED << isLoaded, mlModel, modelVersion, startupFrame >>

NextStartup ==
    \/ InitializeDatabase
    \/ ConnectCache
    \/ LoadModel
    \/ ConnectPublisher
    \/ StartConsumer
    \/ Listen

SpecStartup == InitStartup /\ [][NextStartup]_vars

----------------------------------------------------------------------------
(* MLModelService.predict on feature vectors of every kind *)

\* Feature vectors: every feature the rules of the built-in model are about,
\* and every feature that sits at an index the model reads, below and above
\* the rule's limit; the other features as constructMLFeatures sets them.
FeatureVectors ==
    { [constructMLFeatures(EventOf("t1"), << >>) EXCEPT
          !.txCountFiveMin = v[1], !.txCountOneHour = v[2],
          !.amountRatioToAvg = v[3], !.impossibleTravel = v[4],
          !.isUnusualHour = v[5], !.isNewRecipient = v[6],
          !.recipientRiskScore = v[7], !.isNewDevice = v[8],
          !.totalTxCount = v[9], !.previousFraudFlags = v[10]] :
      v \in {0, 4} \X {0, 11} \X {1, 6} \X {0, 1} \X {0, 1} \X {0, 1}
             \X {0, 1} \X {0, 1} \X {0, 2} \X (0 .. MaxFraudFlags) }

InitScoring ==
    /\ PipelineIdle
    /\ ComponentsInit
    /\ ClientsInit
    /\ AmountInit
    /\ GeoInit
    /\ RecipientsInit
    /\ LifecycleInit
    /\ mlFeatures \in FeatureVectors
    /\ prediction = NULL

\* One call of MLModelService.predict.
Predict ==
    /\ prediction = NULL
    /\ \E inference \in {"ok", "timeout", "throw"} :
          prediction' = predict(mlFeatures, inference)
    /\ UNCHANGED << pipelineVars, consumerVars, velocityVars, checkVars,
                    parallelVars, startupVars, mlFeatures, clientVars,
                    amountVars, geoVars, recipientVars, lifecycleVars >>

NextScoring == Predict

SpecScoring == InitScoring /\ [][NextScoring]_vars

----------------------------------------------------------------------------
(* Concurrent cache clients on the velocity keys *)

\* redis.pipeline() queues the commands and exec() sends them in one batch:
\* the server runs them in their order, each command on its own, and runs
\* the commands of other connections as they arrive, between them as well
\* (the batch is not wrapped in MULTI/EXEC).
clientFrame ==
    << pipelineVars, consumerVars, velocityVars, checkVars, parallelVars,
       startupVars, scoringVars, amountVars, geoVars, recipientVars,
       lifecycleVars >>

InitClients == PipelineIdle /\ ComponentsInit /\ StandaloneInit

\* A client calls CacheService.incrementVelocity.
CallIncrementVelocity(c) ==
    /\ cacheCalls[c].op = "idle"
    /\ callsMade < MaxCalls
    /\ callsMade' = callsMade + 1
    /\ cacheCalls' = [cacheCalls EXCEPT
                         ![c] = [Idle EXCEPT !.op = "incrementVelocity"]]
    /\ UNCHANGED << redis, observations, incremented, clientFrame >>

\* A client calls CacheService.getVelocity.
CallGetVelocity(c) ==
    /\ cacheCalls[c].op = "idle"
    /\ callsMade < MaxCalls
    /\ callsMade' = callsMade + 1
    /\ cacheCalls' = [cacheCalls EXCEPT
                         ![c] = [Idle EXCEPT !.op = "getVelocity"]]
    /\ UNCHANGED << redis, observations, incremented, clientFrame >>

\* pipeline.incr(countKey)
IncrCount(c) ==
    /\ cacheCalls[c].op = "incrementVelocity" /\ cacheCalls[c].next = 0
    /\ redis' = [redis EXCEPT ![countKey] = incrby(countKey, 1)]
    /\ cacheCalls' = [cacheCalls EXCEPT ![c].next = 1]
    /\ UNCHANGED << observations, incremented, callsMade, clientFrame >>

\* pipeline.expire(countKey, ttl)
ExpireCount(c) ==
    /\ cacheCalls[c].op = "incrementVelocity" /\ cacheCalls[c].next = 1
    /\ redis' = [redis EXCEPT
                    ![countKey] = expire(countKey, WindowTTL(velocityWindow))]
    /\ cacheCalls' = [cacheCalls EXCEPT ![c].next = 2]
    /\ UNCHANGED << observations, incremented, callsMade, clientFrame >>

\* pipeline.incrbyfloat(amountKey, amount)
IncrAmount(c) ==
    /\ cacheCalls[c].op = "incrementVelocity" /\ cacheCalls[c].next = 2
    /\ redis' = [redis EXCEPT ![amountKey] = incrby(amountKey, velocityAmount)]
    /\ cacheCalls' = [cacheCalls EXCEPT ![c].next = 3]
    /\ UNCHANGED << observations, incremented, callsMade, clientFrame >>

\* pipeline.expire(amountKey, ttl), after which exec() resolves and
\* incrementVelocity returns.
ExpireAmount(c) ==
    /\ cacheCalls[c].op = "incrementVelocity" /\ cacheCalls[c].next = 3
    /\ redis' = [redis EXCEPT
                    ![amountKey] = expire(amountKey, WindowTTL(velocityWindow))]
    /\ cacheCalls' = [cacheCalls EXCEPT ![c] = Idle]
    /\ incremented' = incremented + 1
    /\ UNCHANGED << observations, callsMade, clientFrame >>

\* pipeline.get(countKey)
GetCount(c) ==
    /\ cacheCalls[c].op = "getVelocity" /\ cacheCalls[c].next = 0
    /\ cacheCalls' = [cacheCalls EXCEPT ![c].next = 1,
                                        ![c].replies = << get(countKey) >>]
    /\ UNCHANGED << redis, observations, incremented, callsMade, clientFrame >>

\* pipeline.get(amountKey), after which exec() resolves and getVelocity
\* returns { count, totalAmount }.
GetAmount(c) ==
    /\ cacheCalls[c].op = "getVelocity" /\ cacheCalls[c].next = 1
    /\ observations' = observations \cup
          { [count |-> cacheCalls[c].replies[1], totalAmount |-> get(amountKey)] }
    /\ cacheCalls' = [cacheCalls EXCEPT ![c] = Idle]
    /\ UNCHANGED << redis, incremented, callsMade, clientFrame >>

NextClients ==
    \E c \in Clients :
        \/ CallIncrementVelocity(c)
        \/ CallGetVelocity(c)
        \/ IncrCount(c)
        \/ ExpireCount(c)
        \/ IncrAmount(c)
        \/ ExpireAmount(c)
        \/ GetCount(c)
        \/ GetAmount(c)

SpecClients == InitClients /\ [][NextClients]_vars

----------------------------------------------------------------------------
(* AmountAnalyzer.analyze on amounts and statistics of every kind *)

\* Amounts on both sides of the limits of the rules.
Amounts ==
    {110, 140, 200, 450, 500, 600, 1000, 1100, 2950, 4900, 9500, 10000,
     60000, 100000}

\* UserTransactionHistory.statistics of a user with history: one to
\* MaxHistory transactions of 100 on average, all of the same amount or
\* (two or more) spread around it up to 120, on an account created
\* recently or long ago.
Statistics ==
    { [totalTransactions |-> v[1], averageAmount |-> 100, maxAmount |-> v[2][1],
       standardDeviation |-> v[2][2], accountCreatedAt |-> v[3]] :
        v \in { x \in (1 .. MaxHistory) \X { << 120, 16 >>, << 100, 0 >> }
                         \X {today - 10, today - 365} :
                  x[1] > 1 \/ x[2][2] = 0 } }

InitAmount ==
    /\ PipelineIdle
    /\ ComponentsInit
    /\ ScoringInit
    /\ ClientsInit
    /\ GeoInit
    /\ RecipientsInit
    /\ LifecycleInit
    /\ amountArgs \in
          [amount : Amounts,
           userHistory : {NULL} \cup {[statistics |-> st] : st \in Statistics}]
    /\ amountFactor = NULL

\* One call of AmountAnalyzer.analyze.
AnalyzeAmount ==
    /\ amountFactor = NULL
    /\ amountFactor' = AmountAnalyzer_analyze(amountArgs.amount,
                                              amountArgs.userHistory)
    /\ UNCHANGED << pipelineVars, consumerVars, velocityVars, checkVars,
                    parallelVars, startupVars, scoringVars, clientVars,
                    amountArgs, geoVars, recipientVars, lifecycleVars >>

NextAmount == AnalyzeAmount

SpecAmount == InitAmount /\ [][NextAmount]_vars

----------------------------------------------------------------------------
(* GeographicAnalyzer.analyze on locations and histories of every kind *)

\* currentLocation as processTransaction builds it: country and coordinates
\* of the payload, or null for each that is absent (the "|| null" also
\* turns a coordinate of 0 into null).
Locations ==
    { [ip |-> Str("203.0.113.7"), country |-> c, city |-> JsNull,
       latitude |-> xy[1], longitude |-> xy[2]] :
        c \in {JsNull, Str("JP"), Str("US"), Str("NG")},
        xy \in { << JsNull, JsNull >>, << Num(35), Num(139) >>,
                 << Num(35), JsNull >> } }

\* A history transaction made in the country the given number of minutes
\* before the analysis.
HistoryTx(country, minutesAgo) ==
    [recipientId |-> "r1", timestamp |-> Num(currentMinute - minutesAgo),
     country |-> country]

\* The histories getUserHistory can return: none, an empty one, and ones
\* whose most recent transaction was made in the US, or without country
\* before one in the US, shortly or long before the analysis.
Histories ==
    {NULL, [transactions |-> << >>]}
      \cup { [transactions |-> << HistoryTx(Str("US"), ago) >>] :
               ago \in {30, 119, 120, 600} }
      \cup { [transactions |-> << HistoryTx(Undefined, 10),
                                  HistoryTx(Str("US"), ago) >>] :
               ago \in {30, 600} }

InitGeographic ==
    /\ PipelineIdle
    /\ ComponentsInit
    /\ ScoringInit
    /\ ClientsInit
    /\ AmountInit
    /\ RecipientsInit
    /\ LifecycleInit
    /\ geoArgs \in [currentLocation : Locations, userHistory : Histories,
                     knownCountries : { << >>, << "US" >> }]
    /\ geoFactor = NULL

\* One call of GeographicAnalyzer.analyze.
AnalyzeLocation ==
    /\ geoFactor = NULL
    /\ geoFactor' = GeographicAnalyzer_analyze(geoArgs.currentLocation,
                         geoArgs.userHistory, geoArgs.knownCountries)
    /\ UNCHANGED << pipelineVars, consumerVars, velocityVars, checkVars,
                    parallelVars, startupVars, scoringVars, clientVars,
                    amountVars, geoArgs, recipientVars, lifecycleVars >>

NextGeographic == AnalyzeLocation

SpecGeographic == InitGeographic /\ [][NextGeographic]_vars

----------------------------------------------------------------------------
(* RecipientAnalyzer.analyze for several users over one recipient cache *)

\* A history transaction to the recipient made the given number of days
\* before the analysis.
TransferTo(recipientId, daysAgo) ==
    [recipientId |-> recipientId, amount |-> 100, timestamp |-> today - daysAgo]

\* The histories of a user: none, an empty one, transfers to r2 only, one
\* recent or one old transfer to r1, two old ones, and as many old ones as
\* make a recipient trusted.
RecipientHistories ==
    { NULL,
      [transactions |-> << >>],
      [transactions |-> << TransferTo("r2", 50) >>],
      [transactions |-> << TransferTo("r1", 5) >>],
      [transactions |-> << TransferTo("r1", 100) >>],
      [transactions |-> << TransferTo("r1", 100), TransferTo("r1", 60) >>],
      [transactions |-> [i \in 1..trustedRecipientMinTransfers |->
                            TransferTo("r1", 100 + i)]] }

InitRecipients ==
    /\ PipelineIdle
    /\ ComponentsInit
    /\ ScoringInit
    /\ ClientsInit
    /\ AmountInit
    /\ GeoInit
    /\ LifecycleInit
    /\ userHistories \in [Users -> RecipientHistories]
    /\ recipientInfoCache = [r \in Recipients |-> NULL]
    /\ recipientRuns = << >>

\* The frame of the actions of this specification.
recipientFrame ==
    << pipelineVars, consumerVars, velocityVars, checkVars, parallelVars,
       startupVars, scoringVars, clientVars, amountVars, geoVars,
       lifecycleVars, userHistories >>

\* One analysis of a transfer of the user to the recipient, with the empty
\* trustedRecipients list processTransaction passes.
AnalyzeRecipient(userId, recipientId) ==
    /\ Len(recipientRuns) < MaxAnalyses
    /\ \E readOk \in BOOLEAN, writeOk \in BOOLEAN :
         LET r == RecipientRules(recipientId, userHistories[userId], << >>,
                                 readOk, writeOk)
         IN /\ recipientInfoCache' = r.cache
            /\ recipientRuns' = Append(recipientRuns,
                    [userId |-> userId, recipientId |-> recipientId,
                     factor |-> r.factor])
    /\ UNCHANGED recipientFrame

\* The entry of a recipient reaches the end of its userHistoryTTL.
ExpireRecipientInfo(recipientId) ==
    /\ recipientInfoCache[recipientId] # NULL
    /\ recipientInfoCache' = [recipientInfoCache EXCEPT ![recipientId] = NULL]
    /\ UNCHANGED << recipientRuns, recipientFrame >>

NextRecipients ==
    \/ \E u \in Users, r \in Recipients : AnalyzeRecipient(u, r)
    \/ \E r \in Recipients : ExpireRecipientInfo(r)

SpecRecipients == InitRecipients /\ [][NextRecipients]_vars

----------------------------------------------------------------------------
(* The life cycle of EventConsumer: connect, start, disconnect, and the
   disconnect and crash events of the consumer instances. *)

InitLifecycle ==
    /\ PipelineIdle
    /\ ComponentsInit
    /\ ScoringInit
    /\ ClientsInit
    /\ AmountInit
    /\ GeoInit
    /\ RecipientsInit
    /\ LifecycleInit

\* The frame of the actions of this specification.
lifecycleFrame ==
    << pipelineVars, consumerVars, velocityVars, checkVars, parallelVars,
       startupVars, scoringVars, clientVars, amountVars, geoVars,
       recipientVars >>

\* EventConsumer.setHandler.
SetHandler ==
    /\ ~messageHandler
    /\ messageHandler' = TRUE
    /\ UNCHANGED << consumer, isConnected, isRunning, connected, subscribed,
                    startResult, lifecycleFrame >>

\* EventConsumer.connect while not connected: a new consumer instance with
\* its listeners replaces the old one; isConnected is set when its connect()
\* resolves, and left alone when it rejects.
Connect ==
    /\ ~isConnected
    /\ consumer < MaxConsumers
    /\ consumer' = consumer + 1
    /\ \E ok \in BOOLEAN :
         IF ok
         THEN /\ connected' = connected \cup {consumer + 1}
              /\ isConnected' = TRUE
         ELSE UNCHANGED << connected, isConnected >>
    /\ UNCHANGED << isRunning, messageHandler, subscribed, startResult,
                    lifecycleFrame >>

\* EventConsumer.start: throws without a connected consumer or a handler,
\* returns at once when isRunning is set, and otherwise subscribes, runs the
\* consumer and sets isRunning; a rejection of subscribe or run is rethrown.
Start ==
    /\ \E ok \in BOOLEAN :
         IF consumer = 0 \/ ~isConnected
         THEN /\ ok
              /\ startResult' = "not connected"
              /\ UNCHANGED << isRunning, subscribed >>
         ELSE IF ~messageHandler
         THEN /\ ok
              /\ startResult' = "no handler"
              /\ UNCHANGED << isRunning, subscribed >>
         ELSE IF isRunning
         THEN /\ ok
              /\ startResult' = "already running"
              /\ UNCHANGED << isRunning, subscribed >>
         ELSE IF ok
         THEN /\ subscribed' = subscribed \cup {consumer}
              /\ isRunning' = TRUE
              /\ startResult' = "started"
         ELSE /\ startResult' = "failed"
              /\ UNCHANGED << isRunning, subscribed >>
    /\ UNCHANGED << consumer, isConnected, messageHandler, connected,
                    lifecycleFrame >>

\* EventConsumer.disconnect with a connected consumer: the instance is
\* disconnected and both flags are cleared.
Disconnect ==
    /\ consumer # 0
    /\ isConnected
    /\ connected' = connected \ {consumer}
    /\ subscribed' = subscribed \ {consumer}
    /\ isConnected' = FALSE
    /\ isRunning' = FALSE
    /\ UNCHANGED << consumer, messageHandler, startResult, lifecycleFrame >>

\* The 'consumer.disconnect' listener: an instance lost its connection to
\* the broker.
OnDisconnect(instance) ==
    /\ instance \in connected
    /\ connected' = connected \ {instance}
    /\ subscribed' = subscribed \ {instance}
    /\ isConnected' = FALSE
    /\ UNCHANGED << consumer, isRunning, messageHandler, startResult,
                    lifecycleFrame >>

\* The 'consumer.crash' listener: the run loop of an instance ended with an
\* error.
OnCrash(instance) ==
    /\ instance \in subscribed
    /\ subscribed' = subscribed \ {instance}
    /\ isConnected' = FALSE
    /\ UNCHANGED << consumer, isRunning, messageHandler, connected,
                    startResult, lifecycleFrame >>

NextLifecycle ==
    \/ SetHandler
    \/ Connect
    \/ Start
    \/ Disconnect
    \/ \E i \in 1..MaxConsumers : OnDisconnect(i)
    \/ \E i \in 1..MaxConsumers : OnCrash(i)

SpecLifecycle == InitLifecycle /\ [][NextLifecycle]_vars

----------------------------------------------------------------------------
(* Properties *)

\* C1, as stated: a delivery of a transaction whose previous full run
\* returned less than analysisResultTTL ago publishes nothing and inserts no
\* fraud_analyses row.
C1_RedeliveryWithinTTLIsSilent ==
    (pc = "done" /\ lastCompleted[cur] >= 0
        /\ startTime - lastCompleted[cur] < analysisResultTTL)
    => (attempts = << >> /\ ~inserted)

\* C1, amended: when the marker of the transaction is stored and not
\* expired and the cache answers the idempotency read, the call does not go
\* past the check, and a call that stopped at the check has published
\* nothing, inserted nothing and built no result.
C1_RedeliveryWithLiveMarkerIsSilent ==
    /\ (pc \in {"analyze", "ml", "save", "publish", "cache"})
        => ~(/\ idemReadOk
             /\ analysisCache[cur] # NULL
             /\ startTime < analysisCache[cur].expiresAt)
    /\ (pc = "done" /\ cachedResult # NULL)
        => (attempts = << >> /\ ~inserted /\ finalResult = NULL
            /\ cachedResult = analysisCache[cur].value)

\* A redelivery some time after the first run, within the TTL, that hit the marker.
C1_Witness ==
    /\ pc = "done"
    /\ cachedResult # NULL
    /\ lastCompleted[cur] >= 0
    /\ startTime > lastCompleted[cur]
    /\ startTime - lastCompleted[cur] < analysisResultTTL

\* C2, as stated: every call that is not an idempotency hit ends with at
\* least one message for the transaction actually sent on the topic of its
\* decision (fraudAnalysis for APPROVE, fraudSuspected otherwise).
C2_EveryRunSendsAMessage ==
    (pc = "done" /\ cachedResult = NULL)
    => \E i \in DOMAIN attempts :
          /\ attempts[i].sent
          /\ attempts[i].key = cur
          /\ attempts[i].topic = (IF finalResult.decision = "APPROVE"
                                  THEN "fraudAnalysis" ELSE "fraudSuspected")

\* C2, amended: every call that is not an idempotency hit hands at least one
\* message for the transaction to publish on the topic of its decision, and
\* each message whose send succeeded is in the broker's log.
C2_EveryRunCallsPublish ==
    (pc \in {"cache", "done"} /\ cachedResult = NULL)
    => /\ \E i \in DOMAIN attempts :
             /\ attempts[i].key = cur
             /\ attempts[i].topic = (IF finalResult.decision = "APPROVE"
                                     THEN "fraudAnalysis" ELSE "fraudSuspected")
       /\ \A i \in DOMAIN attempts :
             attempts[i].sent => outbox[MessageId(attempts[i])] >= 1

\* An approved analysis whose message was sent.
C2_Witness ==
    /\ pc = "done"
    /\ cachedResult = NULL
    /\ finalResult.decision = "APPROVE"
    /\ Len(attempts) = 1
    /\ attempts[1].sent
    /\ outbox[<< "fraudAnalysis", "FraudAnalysisComplete", cur >>] = 1

\* C3: the score of a result is min(1, sum of the contributedScore of its
\* factors) and lies between 0 and 1 (1.0 is scoreCap).
C3_ScoreIsCappedSum ==
    finalResult # NULL
    => LET sum == SumContributed(riskFactors)
       IN /\ finalResult.score = (IF sum > scoreCap THEN scoreCap ELSE sum)
          /\ 0 <= finalResult.score
          /\ finalResult.score <= scoreCap

\* A result whose factors add up to more than 1 without a blocklist match.
C3_Witness ==
    /\ finalResult # NULL
    /\ SumContributed(riskFactors) > scoreCap
    /\ \A i \in DOMAIN riskFactors : riskFactors[i].contributedScore < scoreCap

\* C4, as stated: for every configured pair, a score below suspiciousMin
\* gives APPROVE without review, a score from suspiciousMin up to rejectMin
\* gives SUSPICIOUS with review, a score of rejectMin or more gives REJECT
\* with review.
C4_DecisionByThresholds ==
    finalResult # NULL
    => LET score == finalResult.score
       IN /\ (score < thresholds.suspiciousMin)
               => (finalResult.decision = "APPROVE"
                   /\ ~finalResult.requiresManualReview)
          /\ (thresholds.suspiciousMin <= score /\ score < thresholds.rejectMin)
               => (finalResult.decision = "SUSPICIOUS"
                   /\ finalResult.requiresManualReview)
          /\ (score >= thresholds.rejectMin)
               => (finalResult.decision = "REJECT"
                   /\ finalResult.requiresManualReview)

\* C4, amended: the three cases hold for every configured pair with
\* suspiciousMin <= rejectMin.
C4_DecisionByOrderedThresholds ==
    (thresholds.suspiciousMin <= thresholds.rejectMin) => C4_DecisionByThresholds

\* A SUSPICIOUS result under thresholds other than the defaults.
C4_Witness ==
    /\ finalResult # NULL
    /\ thresholds # DefaultThresholds
    /\ thresholds.suspiciousMin <= thresholds.rejectMin
    /\ finalResult.decision = "SUSPICIOUS"
    /\ finalResult.requiresManualReview

\* C5: when the recipientId or the destinationAccountId of the event matches
\* an active row of fraud_blocklist by its SHA-256 hash, the decision is REJECT.
C5_BlocklistMatchRejects ==
    (/\ finalResult # NULL
     /\ BlocklistMatches(EventOf(cur).recipientId,
                         EventOf(cur).destinationAccountId) # {})
    => finalResult.decision = "REJECT"

\* C6, as stated: after the publish step the (topic, eventType) pairs of
\* the messages sent are exactly those of the decision.
C6_SentMessagesMatchDecision ==
    (pc \in {"cache", "done"} /\ finalResult # NULL)
    => LET expected ==
             CASE finalResult.decision = "APPROVE" ->
                    { << "fraudAnalysis", "FraudAnalysisComplete" >> }
               [] finalResult.decision = "SUSPICIOUS" ->
                    { << "fraudSuspected", "FraudSuspected" >>,
                      << "fraudManualReview", "ManualReviewRequired" >> }
               [] OTHER -> { << "fraudSuspected", "FraudSuspected" >> }
           sent == { << attempts[i].topic, attempts[i].eventType >> :
                        i \in {j \in DOMAIN attempts : attempts[j].sent} }
       IN sent = expected

\* C6, amended: the messages handed to publish are exactly those of the
\* decision, one of each; the messages sent are those among them whose send
\* succeeded, so all of them when every send succeeds and none besides.
C6_PublishCallsMatchDecision ==
    (pc \in {"cache", "done"} /\ finalResult # NULL)
    => LET expected ==
             CASE finalResult.decision = "APPROVE" ->
                    { << "fraudAnalysis", "FraudAnalysisComplete" >> }
               [] finalResult.decision = "SUSPICIOUS" ->
                    { << "fraudSuspected", "FraudSuspected" >>,
                      << "fraudManualReview", "ManualReviewRequired" >> }
               [] OTHER -> { << "fraudSuspected", "FraudSuspected" >> }
           called == { << attempts[i].topic, attempts[i].eventType >> :
                          i \in DOMAIN attempts }
           sent == { << attempts[i].topic, attempts[i].eventType >> :
                        i \in {j \in DOMAIN attempts : attempts[j].sent} }
       IN /\ called = expected
          /\ Len(attempts) = Cardinality(expected)
          /\ sent \subseteq expected
          /\ (\A i \in DOMAIN attempts : attempts[i].sent) => sent = expected
          /\ \A i \in DOMAIN attempts : attempts[i].key = cur

\* A SUSPICIOUS analysis whose two messages were both sent.
C6_Witness ==
    /\ pc = "cache"
    /\ finalResult.decision = "SUSPICIOUS"
    /\ Len(attempts) = 2
    /\ attempts[1].sent
    /\ attempts[2].sent

\* C7: an analysis whose scoring took longer than processingTimeoutMs has
\* status TIMEOUT, never COMPLETED.
C7_DeadlineGivesTimeout ==
    (finalResult # NULL /\ analysisElapsed > processingTimeoutMs)
    => finalResult.status = "TIMEOUT"

C9_UnsentDecisionIsRepublished ==
    (pc = "done" /\ undelivered[cur])
    => (cachedResult = NULL /\ attempts # << >>)

\* C10: when the insert of the fraud_analyses row fails, the call goes on:
\* the result is the one aggregation produced, the publish step hands out
\* messages carrying its decision and score, and the marker, when the cache
\* takes it, holds the same decision and score.
C10_SaveFailureStillPublishes ==
    saveFailed
    => /\ pc \in {"publish", "cache", "done"}
       /\ finalResult = calculateFinalDecision(cur, riskFactors, thresholds)
       /\ (pc \in {"cache", "done"})
            => /\ attempts # << >>
               /\ \A i \in DOMAIN attempts :
                     /\ attempts[i].key = cur
                     /\ attempts[i].payload.decision = finalResult.decision
                     /\ attempts[i].payload.score = finalResult.score
       /\ (pc = "done")
            => /\ markerWritten
                 => analysisCache[cur] =
                       [value |-> Marker(finalResult),
                        expiresAt |-> now + analysisResultTTL]

\* A run whose insert was refused by the database (no row of the
\* transaction exists), that published and stored the marker.
C10_Witness ==
    /\ pc = "done"
    /\ saveFailed
    /\ \A r \in fraud_analyses : r.transactionId # cur
    /\ attempts # << >>
    /\ \A i \in DOMAIN attempts : attempts[i].sent
    /\ markerWritten

\* C11: a message that cannot be parsed (null value, bytes that are not
\* JSON) or whose event lacks a required field (no payload; transactionId,
\* userId or recipientId missing or not a string; amount not a number or
\* <= 0) is dropped: the handler is not invoked and handleMessage returns
\* without throwing.
C11_InvalidMessageIsSkipped ==
    LET unparsable == message.value \in {"null", "malformed"}
        event == message.parsed
        payload == Prop(event, "payload")
        badString(f) == Prop(payload, f) = Undefined
                          \/ TypeOf(Prop(payload, f)) # "string"
        badAmount == TypeOf(Prop(payload, "amount")) # "number"
                       \/ Prop(payload, "amount").num <= 0
        lacksField == \/ event.type # "object"
                      \/ "payload" \notin DOMAIN event
                      \/ payload.type # "object"
                      \/ badString("transactionId")
                      \/ badString("userId")
                      \/ badString("recipientId")
                      \/ badAmount
    IN (handleOutcome # "none" /\ (unparsable \/ lacksField))
       => (~handlerInvoked /\ handleOutcome = "returned")

\* A well-formed event whose amount is not positive was dropped.
C11_Witness ==
    /\ handleOutcome = "returned"
    /\ ~handlerInvoked
    /\ message.value = "json"
    /\ Prop(message.parsed, "payload").type = "object"
    /\ Prop(message.parsed, "payload").transactionId = Str("t1")
    /\ Prop(message.parsed, "payload").userId = Str("u1")
    /\ Prop(message.parsed, "payload").recipientId = Str("r1")
    /\ Prop(message.parsed, "payload").amount = Num(-5)

----------------------------------------------------------------------------

\* The calls of processTransaction for one user that lie within the last
\* window length.
EventsWithin(userId, window) ==
    {i \in 1..Len(processed) :
        /\ processed[i].userId = userId
        /\ now - processed[i].at < WindowTTL(window)}

\* C12 as stated: after N events of one user have been processed within a
\* window, the count getVelocity reads for that user and window is at
\* least N.
C12_CountCoversProcessedEvents ==
    \A u \in Users, w \in Windows :
        getVelocity(u, w, TRUE).count >= Cardinality(EventsWithin(u, w))

\* C12 (amended): after N events of one user have been analysed within a
\* window (not answered from the idempotency marker) and their increments
\* have reached the cache, the count read for that user and window from a
\* reachable cache is at least N.
C12_CountCoversCountedEvents ==
    \A u \in Users, w \in Windows :
        getVelocity(u, w, TRUE).count
            >= Cardinality({i \in EventsWithin(u, w) : processed[i].counted})

\* Two counted events of one user lie within the hour, a redelivery answered
\* from the marker lies beside them, and time has passed since.
C12_Witness ==
    \E u \in Users :
        /\ Cardinality({i \in EventsWithin(u, "1h") : processed[i].counted}) = 2
        /\ \E i \in EventsWithin(u, "1h") : ~processed[i].analysed
        /\ getVelocity(u, "1h", TRUE).count = 2
        /\ now > processed[Len(processed)].at

----------------------------------------------------------------------------

\* The amounts of a set of calls added up.
RECURSIVE SumAmounts(_)
SumAmounts(S) ==
    IF S = {} THEN 0
    ELSE LET i == CHOOSE k \in S : TRUE
         IN processed[i].amount + SumAmounts(S \ {i})

\* C13: the count and the amount read for a user and window cover only that
\* user's transactions processed within the last window length.
C13_ReadCoversOnlyTheWindow ==
    \A u \in Users, w \in Windows :
        /\ getVelocity(u, w, TRUE).count <= Cardinality(EventsWithin(u, w))
        /\ getVelocity(u, w, TRUE).totalAmount <= SumAmounts(EventsWithin(u, w))

----------------------------------------------------------------------------

\* C14: when the REJECT of an analysis came from a blocklist hit, the publish
\* step calls for a BlocklistMatch event on the fraudSuspected topic and for
\* a ManualReviewRequired event on the fraudManualReview topic, both keyed
\* by the transaction.
C14_BlocklistRejectIsAnnounced ==
    (/\ pc \in {"cache", "done"}
     /\ finalResult # NULL
     /\ finalResult.decision = "REJECT"
     /\ \E i \in DOMAIN riskFactors : riskFactors[i] = BlocklistFactor)
    => /\ \E i \in DOMAIN attempts :
            /\ attempts[i].topic = "fraudSuspected"
            /\ attempts[i].eventType = "BlocklistMatch"
            /\ attempts[i].key = cur
       /\ \E i \in DOMAIN attempts :
            /\ attempts[i].topic = "fraudManualReview"
            /\ attempts[i].eventType = "ManualReviewRequired"
            /\ attempts[i].key = cur

----------------------------------------------------------------------------

\* C15: after K checks have each matched the active blocklist entry, from
\* the cache or from the database, one after the other or side by side, the
\* entry's persisted matchCount has grown by at least K.
C15_MatchCountCoversMatches ==
    \A e \in fraud_blocklist : e.matchCount >= matched

----------------------------------------------------------------------------

\* C16: whatever is delivered, redelivered or retried, no step removes or
\* changes a persisted FraudAnalysis row, and afterwards the table holds at
\* most one row per transactionId: a second insert for a transactionId is
\* refused and leaves the first row as it was.
C16_OneRowPerTransaction ==
    [][/\ \A r \in fraud_analyses : r \in fraud_analyses'
       /\ \A a, b \in fraud_analyses' :
              a.transactionId = b.transactionId => a = b]_vars

\* A second analysis of a transaction came to another result than the row
\* its first analysis stored, its insert was refused by the unique index
\* (no call failed), and the stored row is still the only one.
C16_Witness ==
    /\ pc = "publish"
    /\ faults = 0
    /\ saveFailed
    /\ ~inserted
    /\ \E r \in fraud_analyses :
          /\ r.transactionId = cur
          /\ r # AnalysisRow(finalResult)
    /\ Cardinality({r \in fraud_analyses : r.transactionId = cur}) = 1

----------------------------------------------------------------------------

\* C17: whatever the interleaving of the six analyzers, the factors they
\* return, the final score and the decision are those every analyzer gives
\* when run on its own on the state the analysis started from.
C17_ScoreIsTheSameUnderEveryInterleaving ==
    (finalResult # NULL /\ reference # NULL)
    => /\ finalResult.score = reference.result.score
       /\ finalResult.decision = reference.result.decision
       /\ \A i \in DOMAIN riskFactors :
              riskFactors[i].contributedScore
                  = reference.factors[i].contributedScore

\* The device analyzer found its entry in the cache, where the recipient
\* analyzer had put it during the same analysis, and the analysis ended.
C17_Witness ==
    /\ finalResult # NULL
    /\ reference # NULL
    /\ fingerprint = "r2"
    /\ \E c \in blocklistCache : c.key = blocklistKey("DEVICE", "r2")
    /\ \A e \in fraud_blocklist : e.matchCount <= 1
    /\ \E e \in fraud_blocklist : e.type = "DEVICE" /\ e.matchCount = 1
    /\ finalResult.decision = "REJECT"

----------------------------------------------------------------------------

\* The values a blocklist row or a fingerprint can carry in plaintext.
PlainValues == {"r2", "a2", "d2"}

\* C18: every key of the blocklist cache is made of the entry's type and the
\* truncated SHA-256 of its value, every key of the device cache of the
\* truncated SHA-256 of the fingerprint, and no part of a key is a plaintext
\* value.
C18_CacheKeysAreHashed ==
    /\ \A c \in blocklistCache :
          /\ c.key = << "blocklist", c.entry.type, cacheHashValue(c.entry.value) >>
          /\ \A i \in DOMAIN c.key : c.key[i] \notin PlainValues
    /\ \A c \in deviceCache :
          /\ c.key = << "device", cacheHashValue(c.info.fingerprint) >>
          /\ \A i \in DOMAIN c.key : c.key[i] \notin PlainValues

\* Both analyzers have written to the cache: a blocklist entry whose value
\* is kept in plaintext inside the cached entry, and a device info entry.
C18_Witness ==
    /\ \E c \in blocklistCache : c.entry.value \in PlainValues
    /\ \E c \in deviceCache : c.info.fingerprint \in PlainValues
    /\ \A m \in Methods : par[m].pc = "done"

----------------------------------------------------------------------------

\* C19: with the primary model file present, hash validation enabled and a
\* file hash other than the expected one, loadModel fails: no model is
\* loaded and the service never gets to consuming events.
C19_HashMismatchIsFatal ==
    (/\ modelFiles.present
     /\ modelFiles.modelHashValidation
     /\ modelFiles.expectedModelHash # ""
     /\ modelFiles.hash # modelFiles.expectedModelHash)
    => /\ ~isLoaded
       /\ mlModel = "none"
       /\ server \notin {"model", "publisher", "consuming", "listening"}

----------------------------------------------------------------------------

\* C20: when the ML inference timed out or threw, the ML factor carries the
\* neutral result (score 0.5, confidence 0.1, version with "-error"), the
\* decision of the analysis is not APPROVE and the publish step calls for a
\* manual review.
C20_MLErrorLeadsToReview ==
    (/\ pc \in {"cache", "done"}
     /\ finalResult # NULL
     /\ \E i \in DOMAIN riskFactors :
           /\ riskFactors[i].method = "ML_MODEL"
           /\ riskFactors[i].details.modelVersion = ruleBasedVersion \o "-error")
    => /\ \E i \in DOMAIN riskFactors :
             /\ riskFactors[i].method = "ML_MODEL"
             /\ riskFactors[i].score = mlNeutralScore
             /\ riskFactors[i].details.confidence = mlNeutralConfidence
       /\ finalResult.decision # "APPROVE"
       /\ \E i \in DOMAIN attempts :
             /\ attempts[i].topic = "fraudManualReview"
             /\ attempts[i].eventType = "ManualReviewRequired"

\* C21: on every 26-feature vector the built-in rule-based model returns
\* min(0.95, 0.15 [txCountFiveMin > 3] + 0.10 [txCountOneHour > 10]
\* + 0.20 [amountRatioToAvg > 5] + 0.30 [impossibleTravel]
\* + 0.10 [isNewRecipient] + 0.10 [isNewDevice]
\* + 0.15 min(previousFraudFlags, 3)) with confidence 0.7, every term read
\* from the feature of that name.
C21_RuleModelReadsNamedFeatures ==
    (prediction # NULL /\ ~prediction.error)
    => /\ prediction.confidence = 70
       /\ prediction.score =
             Min(95, (IF mlFeatures.txCountFiveMin > 3 THEN 15 ELSE 0)
                   + (IF mlFeatures.txCountOneHour > 10 THEN 10 ELSE 0)
                   + (IF mlFeatures.amountRatioToAvg > 5 THEN 20 ELSE 0)
                   + (IF mlFeatures.impossibleTravel > 0 THEN 30 ELSE 0)
                   + (IF mlFeatures.isNewRecipient > 0 THEN 10 ELSE 0)
                   + (IF mlFeatures.isNewDevice > 0 THEN 10 ELSE 0)
                   + 15 * Min(mlFeatures.previousFraudFlags, 3))

\* C22: the confidence of an analysis follows from its ML factor and its
\* rule factors: HIGH only with an ML confidence of at least 0.8 and at
\* least three rule-based factors with a non-zero score, MEDIUM with an ML
\* confidence of at least 0.5 otherwise, LOW in every other case.
C22_ConfidenceFollowsTheFactors ==
    (pc = "save" /\ finalResult # NULL)
    => LET ml == SelectSeq(riskFactors, LAMBDA r : r.method = "ML_MODEL")
           nonZero == SelectSeq(riskFactors,
                          LAMBDA r : r.method # "ML_MODEL" /\ r.score > 0)
           mlConfidence == IF ml = << >> THEN 0 ELSE Head(ml).details.confidence
       IN finalResult.confidence =
             IF ml # << >> /\ mlConfidence >= 80 /\ Len(nonZero) >= 3
             THEN "HIGH"
             ELSE IF mlConfidence >= 50 THEN "MEDIUM" ELSE "LOW"

\* C23: every risk factor an analyzer or the ML step produced, on every
\* path, has a score and a weight that are not negative and a
\* contributedScore that is their product.
C23_ContributedScoreIsScoreTimesWeight ==
    \A i \in DOMAIN riskFactors :
        /\ riskFactors[i].score >= 0
        /\ riskFactors[i].weight >= 0
        /\ riskFactors[i].contributedScore
              = riskFactors[i].score * riskFactors[i].weight

\* C23, amended: every risk factor has a score and a weight that are not
\* negative; its contributedScore is their product, except on the blocklist
\* short-circuit of RecipientAnalyzer and DeviceAnalyzer, whose factor has
\* score 1.0, the analyzer's weight and contributedScore 1.0.
C23_ContributedScoreIsProductOrOverride ==
    \A i \in DOMAIN riskFactors :
        LET r == riskFactors[i]
        IN /\ r.score >= 0
           /\ r.weight >= 0
           /\ IF r.reason = "blocklist"
              THEN /\ r.method \in {"RECIPIENT", "DEVICE"}
                   /\ r.score = blocklistScore
                   /\ r.contributedScore = blocklistContributed
              ELSE r.contributedScore = r.score * r.weight

\* An analysis with a blocklist factor, a rule factor the rules fired on
\* and the factor of an ML step that failed.
C23_Witness ==
    /\ pc = "save"
    /\ \E i \in DOMAIN riskFactors : riskFactors[i].reason = "blocklist"
    /\ \E i \in DOMAIN riskFactors :
          riskFactors[i].reason = "rules" /\ riskFactors[i].score > 0
    /\ \E i \in DOMAIN riskFactors :
          /\ riskFactors[i].method = "ML_MODEL"
          /\ riskFactors[i].score = mlNeutralScore
          /\ riskFactors[i].contributedScore > 0

\* C24: a blocklist entry whose expiresAt is at or before the current time
\* is inactive: no lookup of its value, through the cache or the database,
\* reports a match.
C24_ExpiredEntryNeverMatches ==
    (\A e \in BlocklistMatches(Checked.recipientId, Checked.destinationAccountId) :
        e.expiresAt # NoExpiry /\ e.expiresAt <= now)
    => matched = 0

\* C25: incrementVelocity is atomic towards concurrent cache clients: no
\* increment is lost, and no getVelocity returns a count to which a
\* transaction has been added together with a total its amount has not
\* been added to.
C25_IncrementVelocityIsAtomic ==
    /\ (\A c \in Clients : cacheCalls[c].op # "incrementVelocity")
          => /\ get(countKey) = incremented
             /\ get(amountKey) = incremented * velocityAmount
    /\ \A o \in observations : o.totalAmount >= o.count * velocityAmount

\* The amount table: what the rules a transfer meets add up to;
\* historyFrom(rule) is the number of historical transactions from which
\* the history-based rule is applied, needsDeviation(rule) whether it is
\* skipped at a standard deviation of zero.
AmountTable(amount, stats, historyFrom, needsDeviation) ==
    LET applies(rule) ==
            /\ stats.totalTransactions >= historyFrom[rule]
            /\ needsDeviation[rule] => stats.standardDeviation > 0
        ratio == IF ~applies("ratio") \/ stats.averageAmount = 0 THEN 0
                 ELSE IF amount >= 2 * unusualMultiplier * stats.averageAmount
                 THEN 20
                 ELSE IF amount >= unusualMultiplier * stats.averageAmount
                 THEN 12 ELSE 0
        max == IF ~applies("max") \/ stats.maxAmount = 0 THEN 0
               ELSE IF amount > 2 * stats.maxAmount THEN 15
               ELSE IF 2 * amount > 3 * stats.maxAmount THEN 8 ELSE 0
        large == IF amount >= 10 * largeTransferMin THEN 12
                 ELSE IF amount >= 5 * largeTransferMin THEN 8
                 ELSE IF amount >= largeTransferMin THEN 4 ELSE 0
        round == IF amount \in roundThresholds THEN 5
                 ELSE IF amount >= 500 /\ amount % 100 = 0 THEN 3 ELSE 0
        structuring == IF 9000 <= amount /\ amount < 10000 THEN 15
                       ELSE IF 4800 <= amount /\ amount < 5000 THEN 8
                       ELSE IF 2900 <= amount /\ amount < 3000 THEN 5 ELSE 0
        z == IF ~applies("z") \/ stats.standardDeviation = 0 THEN 0
             ELSE IF amount - stats.averageAmount >= 4 * stats.standardDeviation
             THEN 18
             ELSE IF amount - stats.averageAmount >= 3 * stats.standardDeviation
             THEN 12
             ELSE IF amount - stats.averageAmount >= 2 * stats.standardDeviation
             THEN 6 ELSE 0
        newAccount == IF today - stats.accountCreatedAt < 30 /\ amount > 1000
                      THEN 8 ELSE 0
    IN ratio + max + large + round + structuring + z + newAccount

\* The statistics of the call made: those of the history, or those of a
\* user without history.
StatsOfCall ==
    IF amountArgs.userHistory = NULL THEN getDefaultStats
    ELSE amountArgs.userHistory.statistics

\* What the claims about the amount score have in common: the score is the
\* capped sum of the table, a transfer that meets no rule has score 0 and
\* the reason 'Normal transaction amount', and a transfer of at least
\* unusualMultiplier times the average of a user with five or more
\* transactions has a score above 0.
AmountScoreFollows(historyFrom, needsDeviation) ==
    amountFactor # NULL
    => LET sum == AmountTable(amountArgs.amount, StatsOfCall, historyFrom,
                              needsDeviation)
       IN /\ amountFactor.score = Min(40, sum)
          /\ sum = 0 => /\ amountFactor.score = 0
                        /\ amountFactor.reason = "Normal transaction amount"
          /\ (/\ StatsOfCall.totalTransactions >= 5
              /\ amountArgs.amount
                    >= unusualMultiplier * StatsOfCall.averageAmount)
             => amountFactor.score > 0

\* C26, as stated: the amount score is min(0.40, sum of the rules of the
\* amount table that fire), with every history-based rule (ratio to
\* average, exceeds max, z-score) skipped for a user with fewer than 5
\* transactions or a standard deviation of 0.
C26_HistoryRulesNeedFiveTransactions ==
    AmountScoreFollows([rule \in {"ratio", "max", "z"} |-> 5],
                       [rule \in {"ratio", "max", "z"} |-> TRUE])

\* C26, amended: the ratio to the average is skipped below 5 transactions,
\* the comparison with the historical maximum below 3 transactions, and
\* the z-score only at a standard deviation of 0.
C26_EachHistoryRuleHasItsOwnGuard ==
    AmountScoreFollows([rule \in {"ratio", "max", "z"} |->
                           IF rule = "ratio" THEN 5
                           ELSE IF rule = "max" THEN 3 ELSE 0],
                       [rule \in {"ratio", "max", "z"} |-> rule = "z"])

\* A call on a user with three transactions whose transfer is above twice
\* the historical maximum and meets no rule that is not about the history.
C26_Witness ==
    /\ amountFactor # NULL
    /\ amountArgs.userHistory # NULL
    /\ StatsOfCall.totalTransactions = 3
    /\ amountArgs.amount > 2 * StatsOfCall.maxAmount
    /\ amountFactor.score = 15

\* C27: whenever the most recent history transaction was made in another
\* country than the current transfer and less than impossibleTravelHours
\* ago, the raw score of the GEOGRAPHIC factor includes the 0.35 of
\* impossible travel, with or without coordinates in the current event.
C27_ImpossibleTravelNeedsNoCoordinates ==
    (/\ geoFactor # NULL
     /\ geoArgs.userHistory # NULL
     /\ geoArgs.userHistory.transactions # << >>
     /\ LET recent == Head(geoArgs.userHistory.transactions)
        IN /\ Truthy(recent.country)
           /\ Truthy(geoArgs.currentLocation.country)
           /\ recent.country # geoArgs.currentLocation.country
           /\ currentMinute - recent.timestamp.num < impossibleTravelHours * 60)
    => geoFactor.score >= 35

\* C28: over every sequence of deliveries and redeliveries of an event, the
\* transaction increments the velocity counters of its user at most once:
\* at most one processing of a transactionId runs the increment.
C28_VelocityCountedOncePerTransaction ==
    \A i, j \in DOMAIN processed :
        (/\ processed[i].transactionId = processed[j].transactionId
         /\ processed[i].counted
         /\ processed[j].counted)
        => i = j

\* C29: the RECIPIENT factor of a user does not depend on other users: a
\* transfer to a recipient that the history of the user has no transfer to
\* (recipient neither trusted nor blocklisted) gets the 0.15 of a new
\* recipient, whatever was cached for the recipient by analyses of other
\* users.
C29_FirstTransferIsNewRecipient ==
    \A k \in DOMAIN recipientRuns :
        LET run == recipientRuns[k]
            userHistory == userHistories[run.userId]
        IN (userHistory = NULL
              \/ TransfersTo(run.recipientId, userHistory) = << >>)
           => /\ run.factor.details.isNew
              /\ run.factor.score >= 15

\* C30: in every reachable state of EventConsumer, under connect, start and
\* disconnect calls and the disconnect and crash events of the broker
\* connection, isRunning implies isConnected.
C30_RunningImpliesConnected == isRunning => isConnected

====
